---------------------------- MODULE Spec2Model ----------------------------
(***************************************************************************)
(* ArtNetLab: the Art-Net engine of src-tauri (artnet.rs, state.rs,        *)
(* main.rs) as a state machine.                                            *)
(*                                                                         *)
(* One set of variables holds the program's state: the fields of           *)
(* state.rs `Inner` (one mutex guards them all), the spawned tokio tasks,  *)
(* the commands in flight, and the positions of the receiver and sender    *)
(* tasks.  The specifications run parts of the program over them:          *)
(*   SpecCodec   encode_artdmx / parse_artdmx on bounded inputs            *)
(*   Spec        the task-slot commands (start_X / stop_X), concurrently   *)
(*   SpecSerial  the same commands, one at a time                          *)
(*   SpecRecv    the receiver task's dispatch of datagrams                 *)
(*   SpecSend    the sender task, push_frame and the sequence counter      *)
(*   SpecRecord  the buffered recorder and its load and save commands      *)
(*   SpecCfg     the configuration commands                                *)
(*   SpecLive    the live buffer, the animator and playback, coarsely      *)
(*   SpecSnap    the readers and writers of the live buffer                *)
(*   SpecAnim    the animator's ticks beside stop_animation                *)
(*   SpecPlay    the streaming recorder and the players, step by step      *)
(*   SpecStream  the streaming recorder's sessions and their files         *)
(* Byte sequences are 1-indexed here; At(buf, k) is the source's buf[k].   *)
(***************************************************************************)
EXTENDS Integers, Sequences, FiniteSets, TLC

(***************************************************************************)
(* Bounds of the model.                                                    *)
(***************************************************************************)
\* corruptions the network applies to one encoded datagram (SpecCodec)
MaxTamper == 2
\* tokio worker threads running async commands at once (Spec, SpecSerial)
NumWorkers == 2
\* tasks spawned in one run
MaxTasks == 2

(***************************************************************************)
(* Program constants.                                                      *)
(***************************************************************************)
\* artnet.rs:62  data: &[u8; 512]
DmxSize == 512
\* artnet.rs:8   ARTNET_PORT
ARTNET_PORT == 6454
\* artnet.rs:9   b"Art-Net\0"
ARTNET_ID == <<65, 114, 116, 45, 78, 101, 116, 0>>
\* artnet.rs:10  OP_OUTPUT = 0x5000
OP_OUTPUT == 20480
\* artnet.rs:11  PROT_VER = 14
PROT_VER == 14
\* u8 arithmetic is modulo 256
U8 == 256

Byte == 0..(U8 - 1)

\* the source's 0-based buf[k]
At(buf, k) == buf[k + 1]
\* the source's buf[a..b]
Slice(buf, a, b) == SubSeq(buf, a + 1, b)

\* u16::to_le_bytes / u16::to_be_bytes / from_le_bytes / from_be_bytes
to_le_bytes(x) == <<x % U8, x \div U8>>
to_be_bytes(x) == <<x \div U8, x % U8>>
from_le_bytes(b0, b1) == b0 + U8 * b1
from_be_bytes(b0, b1) == U8 * b0 + b1

(***************************************************************************)
(* artnet.rs: configs and the codec.                                       *)
(***************************************************************************)
ReceiverConfigDefault == [bind_ip |-> "0.0.0.0", port |-> ARTNET_PORT]

SenderConfigDefault ==
    [target_ip |-> "255.255.255.255", port |-> ARTNET_PORT,
     net |-> 0, subnet |-> 0, universe |-> 0, fps |-> 44]

\* A [u8; 512] held in the state is written as the set of its non-zero cells
\* <<index, value>> (index 0-based); Dense gives the 512 bytes themselves.
ZeroChannels == {}

\* [0u8; 512]
Zeros == [i \in 1..DmxSize |-> 0]

RECURSIVE Written(_, _)
Written(arr, cells) ==
    IF cells = {} THEN arr
    ELSE LET c == CHOOSE x \in cells : TRUE
         IN  Written([arr EXCEPT ![c[1] + 1] = c[2]], cells \ {c})

Dense(buf) == Written(Zeros, buf)

\* the loop of compute_dmx_length run over the indices lo..hi-1, entered with
\* last = 0: last = i + 1 for every non-zero data[i], so the later half of
\* the range decides unless it holds no non-zero byte.  Halving the range
\* keeps the evaluation shallow.
RECURSIVE ScanLast(_, _, _)
ScanLast(data, lo, hi) ==
    IF hi <= lo THEN 0
    ELSE IF hi = lo + 1 THEN (IF At(data, lo) # 0 THEN lo + 1 ELSE 0)
    ELSE LET mid   == (lo + hi) \div 2
             later == ScanLast(data, mid, hi)
         IN  IF later # 0 THEN later ELSE ScanLast(data, lo, mid)

\* mutant: the length is not rounded up to an even number
compute_dmx_length_odd(data) ==
    LET last == ScanLast(data, 0, DmxSize)
        len0 == IF last = 0 THEN 512 ELSE IF last < 2 THEN 2 ELSE last
    IN  IF len0 > 512 THEN 512 ELSE len0

compute_dmx_length(data) ==
    LET last == ScanLast(data, 0, DmxSize)
        len0 == IF last = 0 THEN 512 ELSE IF last < 2 THEN 2 ELSE last
        len1 == IF len0 % 2 = 1 THEN len0 + 1 ELSE len0
    IN  IF len1 > 512 THEN 512 ELSE len1

\* mutant: SubUni written with the nibbles swapped and Net unmasked
encode_artdmx_swapped(cfg, data, seq) ==
    LET length == compute_dmx_length(data)
        sub    == cfg.subnet % 16
        uni    == cfg.universe % 16
        subuni == ((uni * 16) % U8) + sub
    IN  ARTNET_ID \o to_le_bytes(OP_OUTPUT) \o to_be_bytes(PROT_VER)
          \o <<seq, 0, subuni, cfg.net>>
          \o to_be_bytes(length) \o Slice(data, 0, length)

encode_artdmx(cfg, data, seq) ==
    LET length == compute_dmx_length(data)
        sub    == cfg.subnet % 16
        uni    == cfg.universe % 16
        subuni == ((sub * 16) % U8) + uni   \* (sub << 4) | uni: disjoint bits
    IN  ARTNET_ID \o to_le_bytes(OP_OUTPUT) \o to_be_bytes(PROT_VER)
          \o <<seq, 0, subuni, cfg.net % 128>>
          \o to_be_bytes(length) \o Slice(data, 0, length)

NoFrame ==
    [net |-> 0, subnet |-> 0, universe |-> 0, length |-> 0,
     sequence |-> 0, physical |-> 0, values |-> <<>>]

ParseErr(msg) == [ok |-> FALSE, err |-> msg, frame |-> NoFrame]

ParseOk(buf) ==
    LET len == from_be_bytes(At(buf, 16), At(buf, 17))
    IN  [ok |-> TRUE, err |-> "",
         frame |-> [net |-> At(buf, 15),
                    subnet |-> (At(buf, 14) \div 16) % 16,
                    universe |-> At(buf, 14) % 16,
                    length |-> len,
                    sequence |-> At(buf, 12),
                    physical |-> At(buf, 13),
                    values |-> Slice(buf, 18, 18 + len)]]

\* mutant: the OpCode is checked before the ID, and ProtVer must be 14
parse_artdmx_reordered(buf) ==
    IF Len(buf) < 18 THEN ParseErr("Packet too short")
    ELSE IF from_le_bytes(At(buf, 8), At(buf, 9)) # OP_OUTPUT
         THEN ParseErr("Unsupported OpCode")
    ELSE IF Slice(buf, 0, 8) # ARTNET_ID THEN ParseErr("Not Art-Net")
    ELSE IF from_be_bytes(At(buf, 10), At(buf, 11)) # PROT_VER
         THEN ParseErr("Unsupported OpCode")
    ELSE IF Len(buf) < 18 + from_be_bytes(At(buf, 16), At(buf, 17))
         THEN ParseErr("Length mismatch")
    ELSE ParseOk(buf)

\* mutant: the ID is not looked at
parse_artdmx_any_id(buf) ==
    IF Len(buf) < 18 THEN ParseErr("Packet too short")
    ELSE IF from_le_bytes(At(buf, 8), At(buf, 9)) # OP_OUTPUT
         THEN ParseErr("Unsupported OpCode")
    ELSE IF Len(buf) < 18 + from_be_bytes(At(buf, 16), At(buf, 17))
         THEN ParseErr("Length mismatch")
    ELSE ParseOk(buf)

parse_artdmx(buf) ==
    IF Len(buf) < 18 THEN ParseErr("Packet too short")
    ELSE IF Slice(buf, 0, 8) # ARTNET_ID THEN ParseErr("Not Art-Net")
    ELSE IF from_le_bytes(At(buf, 8), At(buf, 9)) # OP_OUTPUT
         THEN ParseErr("Unsupported OpCode")
    ELSE IF Len(buf) < 18 + from_be_bytes(At(buf, 16), At(buf, 17))
         THEN ParseErr("Length mismatch")
    ELSE ParseOk(buf)

(***************************************************************************)
(* State.                                                                  *)
(***************************************************************************)
\* state.rs Inner (lines 251-271); slots holds its five JoinHandle fields
VARIABLES recv_cfg, send_cfg, channels, sequence, record_tx, record_buffer,
          animation_state, event_filter, slots
\* the tokio tasks spawned so far and the commands in flight, per thread
VARIABLES tasks, cmds
\* per slot, the tasks installed by the start commands completed since the
\* last stop command on that slot (the last two of them)
VARIABLES hist
\* the codec run: inputs, the datagram on the wire, the parse result
VARIABLES c_phase, c_cfg, c_data, c_seq, c_pkt, c_res, c_tampers
\* the receiver task's position and locals, the datagrams received so far,
\* the two event sinks ("artnet:dmx", "artnet:dmx_filtered"), the clock (ms)
VARIABLES rx, arrived, dmx, dmx_filtered, now
\* the filter and buffered-recorder commands the host has issued
VARIABLES issued
\* the streaming recorder: its task, its channel and the lines it has written
VARIABLES recorder
\* the receiver's effects in the order they happened, the frames it has
\* finished with, and the datagram each row of the buffered recorder came from
VARIABLES log, done, rows
\* the sender task's position and locals
VARIABLES snd
\* a marked value of the sequence counter, the next_sequence calls made
\* since, and the last call's counter value before it and return value
VARIABLES mark, calls, last_call
\* what the last buffered-recorder or live-buffer command returned to the host
VARIABLES reply
\* the frames the buffered record has stored since start_buffered_recording
\* made it, while nothing else has rewritten it
VARIABLES fed
\* the last datagram a sender task sent; the playback task's position and
\* locals; the animation task's position and locals
VARIABLES wire, play, anim
\* for the sender's tick and each push_frame under way, the values the live
\* buffer has had since it began
VARIABLES held

innerVars == <<recv_cfg, send_cfg, channels, sequence, record_tx,
               record_buffer, animation_state, event_filter, slots>>
runVars   == <<tasks, cmds, hist>>
codecVars == <<c_phase, c_cfg, c_data, c_seq, c_pkt, c_res, c_tampers>>
recvRest  == <<rx, arrived, dmx, dmx_filtered, now, issued, log, done, rows>>
recvVars  == <<recvRest, recorder>>
sendVars  == <<snd, mark, calls, last_call>>
hostVars  == <<reply, fed, wire, play, anim, held>>
\* what the task-slot commands leave alone
offVars   == <<codecVars, recvVars, sendVars, hostVars>>
vars      == <<innerVars, runVars, codecVars, recvVars, sendVars, hostVars>>

Slots == {"recv_task", "send_task", "record_task", "play_task", "animation_task"}
NoTask == 0
\* Option<T>: None is the empty sequence, Some(x) the sequence of x alone
None == <<>>
Some(x) == <<x>>

AnimationStateDefault ==
    [mode |-> "off", frequency |-> 1, master_value |-> 255, is_running |-> FALSE]

\* AppState::default (state.rs 273-293)
InnerDefault ==
    /\ recv_cfg = ReceiverConfigDefault
    /\ send_cfg = SenderConfigDefault
    /\ channels = ZeroChannels
    /\ sequence = 0
    /\ record_tx = None
    /\ record_buffer = None
    /\ animation_state = AnimationStateDefault
    /\ event_filter = None
    /\ slots = [s \in Slots |-> NoTask]

\* main.rs: the host runs a command declared `fn` on the main thread and one
\* declared `async fn` on a worker of the async runtime
Main == 0
Threads == 0..NumWorkers

Idle == [op |-> "idle", pc |-> "idle", handle |-> NoTask, cfg |-> None, arg |-> None,
         seq |-> 0]

RunIdle ==
    /\ tasks = <<>>
    /\ cmds = [th \in Threads |-> Idle]
    /\ hist = [s \in Slots |-> <<>>]

\* the receiver waits in recv_from; nothing received, emitted or recorded
RxIdle == [pc |-> "recv", k |-> 0, frame |-> NoFrame, filter |-> None, pass |-> FALSE,
           malformed |-> {}, late |-> {}]

\* the paths a streaming recording is written to
RecordPaths == {"a.jsonl", "b.jsonl"}

\* no file at any path
NoDisk == [p \in RecordPaths |-> <<>>]

\* no streaming session: no task, nothing queued, nothing written.  pc, hand
\* and offset are the record task's position, the frame it has taken from the
\* channel and the write position of its file handle; old is the session
\* this one replaced and disk the files written so far
NoRecorder == [task |-> NoTask, start |-> 0, queue |-> <<>>, lines |-> <<>>,
               pc |-> "spawned", hand |-> <<>>, offset |-> 0, path |-> "a.jsonl",
               old |-> <<>>, disk |-> NoDisk]

RecvIdle ==
    /\ rx = RxIdle
    /\ arrived = 0
    /\ dmx = <<>>
    /\ dmx_filtered = <<>>
    /\ now = 0
    /\ issued = 0
    /\ recorder = NoRecorder
    /\ log = <<>>
    /\ done = <<>>
    /\ rows = <<>>

\* the sender waits for its tick; nothing sent
SndIdle == [pc |-> "tick", task |-> NoTask, last |-> ZeroChannels, seq |-> 0]

SendIdle ==
    /\ snd = SndIdle
    /\ mark = None
    /\ calls = 0
    /\ last_call = None

\* no playback task.  A playback task has its file (source), the lines or
\* frames it has read (pos), the frame it made last (arr) and the locals of
\* its loop: pc, first, channels, last_t, the record in hand with the time
\* slept for it (rec, wait), and what it has sent so far (out)
NoPlay == [task |-> NoTask, source |-> "", pos |-> 0, arr |-> ZeroChannels,
           pc |-> "next", first |-> TRUE, channels |-> <<>>, last_t |-> <<>>,
           rec |-> <<>>, wait |-> 0, out |-> <<>>]

\* the animation task waits for its tick
AnimIdle == [pc |-> "tick", animation |-> AnimationStateDefault]

\* a command's return value as the host gets it: Ok(value) or Err(message)
Ok(op, v)    == Some([op |-> op, ok |-> TRUE, value |-> v])
Err(op, msg) == Some([op |-> op, ok |-> FALSE, value |-> msg])

\* no record, or one that no start_buffered_recording made; `offered` tells
\* that a loaded record has been handed a frame since
NoFed == [loaded |-> FALSE, frames |-> None, offered |-> FALSE]

\* no tick and no push_frame under way
NoReaders == [sender |-> {}, push |-> [th \in Threads \ {Main} |-> {}]]

HostIdle ==
    /\ held = NoReaders
    /\ reply = None
    /\ fed = NoFed
    /\ wire = None
    /\ play = NoPlay
    /\ anim = AnimIdle

CodecIdle ==
    /\ c_phase = "off"
    /\ c_cfg = SenderConfigDefault
    /\ c_data = ZeroChannels
    /\ c_seq = 0
    /\ c_pkt = <<>>
    /\ c_res = ParseErr("")
    /\ c_tampers = 0

(***************************************************************************)
(* SpecCodec: encode_artdmx, the network, parse_artdmx.                    *)
(***************************************************************************)
CodecBuffers ==
    { {}, {<<0, 1>>}, {<<1, 255>>}, {<<2, 7>>}, {<<2, 5>>, <<3, 6>>},
      {<<100, 3>>, <<255, 1>>}, {<<510, 9>>}, {<<0, 200>>, <<511, 7>>},
      {<<511, 1>>} }

CodecCfgs ==
    { [SenderConfigDefault EXCEPT !.net = n[1], !.subnet = n[2], !.universe = n[3]] :
        n \in { <<1, 2, 3>>, <<127, 15, 15>>, <<200, 18, 255>> } }

CodecSeqs == {0, 7, 255}

\* what the network may do to a datagram
TruncateTo == {5, 17, 19}
Patches == { <<0, 66>>, <<8, 1>>, <<9, 81>>, <<11, 15>>, <<16, 2>>, <<17, 0>>, <<17, 3>> }
PadWith == { <<170, 171, 172>> }

InitCodec ==
    /\ InnerDefault /\ RunIdle /\ RecvIdle /\ SendIdle /\ HostIdle
    /\ c_phase = "input"
    /\ c_cfg \in CodecCfgs
    /\ c_data \in CodecBuffers
    /\ c_seq \in CodecSeqs
    /\ c_pkt = <<>>
    /\ c_res = ParseErr("")
    /\ c_tampers = 0

\* send_artdmx (artnet.rs 188-198): the packet put on the wire
CodecEncode ==
    /\ c_phase = "input"
    /\ c_pkt' = encode_artdmx(c_cfg, Dense(c_data), c_seq)
    /\ c_phase' = "wire"
    /\ UNCHANGED <<c_cfg, c_data, c_seq, c_res, c_tampers, innerVars, runVars,
                   recvVars, sendVars, hostVars>>

CodecTruncate ==
    /\ c_phase = "wire" /\ c_tampers < MaxTamper
    /\ \E n \in TruncateTo :
          /\ n < Len(c_pkt)
          /\ c_pkt' = SubSeq(c_pkt, 1, n)
    /\ c_tampers' = c_tampers + 1
    /\ UNCHANGED <<c_phase, c_cfg, c_data, c_seq, c_res, innerVars, runVars,
                   recvVars, sendVars, hostVars>>

CodecPatch ==
    /\ c_phase = "wire" /\ c_tampers < MaxTamper
    /\ \E p \in Patches :
          /\ p[1] < Len(c_pkt)
          /\ c_pkt' = [c_pkt EXCEPT ![p[1] + 1] = p[2]]
    /\ c_tampers' = c_tampers + 1
    /\ UNCHANGED <<c_phase, c_cfg, c_data, c_seq, c_res, innerVars, runVars,
                   recvVars, sendVars, hostVars>>

CodecPad ==
    /\ c_phase = "wire" /\ c_tampers < MaxTamper
    /\ \E t \in PadWith : c_pkt' = c_pkt \o t
    /\ c_tampers' = c_tampers + 1
    /\ UNCHANGED <<c_phase, c_cfg, c_data, c_seq, c_res, innerVars, runVars,
                   recvVars, sendVars, hostVars>>

\* the receiver's call parse_artdmx(&buf[..n]) (state.rs 558)
CodecParse ==
    /\ c_phase = "wire"
    /\ c_res' = parse_artdmx(c_pkt)
    /\ c_phase' = "parsed"
    /\ UNCHANGED <<c_cfg, c_data, c_seq, c_pkt, c_tampers, innerVars, runVars,
                   recvVars, sendVars, hostVars>>

NextCodec == CodecEncode \/ CodecTruncate \/ CodecPatch \/ CodecPad \/ CodecParse

SpecCodec == InitCodec /\ [][NextCodec]_vars


(***************************************************************************)
(* Spec / SpecSerial: the task-slot commands.                              *)
(*                                                                         *)
(* Every `self.inner.lock()` of a command is one step; what a command      *)
(* does between two locks (tokio::spawn, creating the channel) is a step   *)
(* of its own.  A task is "running" from tokio::spawn until abort() is     *)
(* called on its handle ("aborted") or its future returns ("finished").    *)
(***************************************************************************)
AsyncOps == {"start_receiver", "start_sender", "play_file", "play_wav_file",
             "start_animation"}
SyncOps  == {"start_recording", "stop_receiver", "stop_sender", "stop_recording",
             "stop_playback", "stop_animation"}
StartOps == AsyncOps \cup {"start_recording"}
Ops      == AsyncOps \cup SyncOps

SlotOf(op) ==
    CASE op \in {"start_receiver", "stop_receiver"}            -> "recv_task"
      [] op \in {"start_sender", "stop_sender"}                -> "send_task"
      [] op \in {"start_recording", "stop_recording"}          -> "record_task"
      [] op \in {"play_file", "play_wav_file", "stop_playback"} -> "play_task"
      [] op \in {"start_animation", "stop_animation"}          -> "animation_task"

\* the arguments start_animation is called with
AnimationArgs == { [mode |-> "sinusoid", frequency |-> 2, master_value |-> 128] }

AllIdle == \A th \in Threads : cmds[th].op = "idle"

\* start commands in flight that have not yet spawned their task
ToSpawn == { th \in Threads : cmds[th].op \in StartOps /\ cmds[th].handle = NoTask }

\* the fields of Inner no slot command writes
innerRest == <<recv_cfg, send_cfg, channels, sequence, record_buffer, event_filter>>

Goto(th, pc) == cmds' = [cmds EXCEPT ![th].pc = pc]
Return(th)   == cmds' = [cmds EXCEPT ![th] = Idle]

\* mutant: the handle is dropped, which detaches the task and leaves it running
abort_detach(ts, h) == ts

\* JoinHandle::abort: a running task is cancelled, a finished one is not touched
abort(ts, h) == [ts EXCEPT ![h].state = IF @ = "running" THEN "aborted" ELSE @]

\* `if let Some(handle) = <slot>.take() { handle.abort(); }`
TakeAndAbort(s) ==
    IF slots[s] # NoTask
    THEN /\ tasks' = abort(tasks, slots[s])
         /\ slots' = [slots EXCEPT ![s] = NoTask]
    ELSE UNCHANGED <<tasks, slots>>

stop_receiver == TakeAndAbort("recv_task") /\ UNCHANGED <<record_tx, animation_state>>
stop_sender   == TakeAndAbort("send_task") /\ UNCHANGED <<record_tx, animation_state>>
stop_playback == TakeAndAbort("play_task") /\ UNCHANGED <<record_tx, animation_state>>

stop_recording ==
    /\ record_tx' = None
    /\ TakeAndAbort("record_task")
    /\ UNCHANGED animation_state

\* stop_animation locks twice: take and abort, then is_running = false
stop_animation_take == TakeAndAbort("animation_task") /\ UNCHANGED <<record_tx, animation_state>>

stop_animation_clear ==
    /\ animation_state' = [animation_state EXCEPT !.is_running = FALSE]
    /\ UNCHANGED <<tasks, slots, record_tx>>

\* set_receiver_task / set_sender_task / set_play_task / set_animation_task:
\* the slot is overwritten; a handle it held is dropped without abort
set_task(s, h) == slots' = [slots EXCEPT ![s] = h]

set_recording(tx, h) ==
    /\ record_tx' = Some(tx)
    /\ slots' = [slots EXCEPT !.record_task = h]

\* tokio::spawn: the new task runs at once; its handle is its index in tasks
Spawn(th, kind, cfg) ==
    /\ Len(tasks) < MaxTasks
    /\ tasks' = Append(tasks, [kind |-> kind, state |-> "running", cfg |-> cfg])
    /\ cmds' = [cmds EXCEPT ![th].handle = Len(tasks) + 1, ![th].pc = "set"]

Installed(s, h) ==
    hist' = [hist EXCEPT ![s] = IF Len(@) = 2 THEN <<@[2], h>> ELSE Append(@, h)]
Forgotten(s) == hist' = [hist EXCEPT ![s] = <<>>]

\* the host invokes a command
Invoke(th, op) ==
    /\ cmds[th].op = "idle"
    /\ (op \in AsyncOps) <=> (th # Main)
    /\ op \in StartOps => Len(tasks) + Cardinality(ToSpawn) < MaxTasks
    /\ \E a \in (IF op = "start_animation" THEN AnimationArgs ELSE {None}) :
          cmds' = [cmds EXCEPT ![th] = [Idle EXCEPT !.op = op, !.pc = "stop", !.arg = a]]
    /\ UNCHANGED <<innerVars, tasks, hist, offVars>>

\* start_receiver, start_sender, play_file: stop, read the config, spawn, install
StartTask(th, op, stop, cfg_now) ==
    /\ cmds[th].op = op
    /\ \/ /\ cmds[th].pc = "stop"
          /\ stop
          /\ Goto(th, "cfg")
          /\ UNCHANGED <<innerRest, hist, offVars>>
       \/ /\ cmds[th].pc = "cfg"
          /\ cmds' = [cmds EXCEPT ![th].cfg = cfg_now, ![th].pc = "spawn"]
          /\ UNCHANGED <<innerVars, tasks, hist, offVars>>
       \/ /\ cmds[th].pc = "spawn"
          /\ Spawn(th, SlotOf(op), cmds[th].cfg)
          /\ UNCHANGED <<innerVars, hist, offVars>>
       \/ /\ cmds[th].pc = "set"
          /\ set_task(SlotOf(op), cmds[th].handle)
          /\ Installed(SlotOf(op), cmds[th].handle)
          /\ Return(th)
          /\ UNCHANGED <<innerRest, record_tx, animation_state, tasks, offVars>>

start_receiver(th) == StartTask(th, "start_receiver", stop_receiver, recv_cfg)
start_sender(th)   == StartTask(th, "start_sender", stop_sender, send_cfg)
play_file(th)      == StartTask(th, "play_file", stop_playback, send_cfg)

\* play_wav_file: load_wav_recording(path)? returns the error before anything
\* is spawned
play_wav_file(th) ==
    \/ /\ cmds[th].op = "play_wav_file" /\ cmds[th].pc = "stop"
       /\ stop_playback
       /\ Goto(th, "load")
       /\ UNCHANGED <<innerRest, hist, offVars>>
    \/ /\ cmds[th].op = "play_wav_file" /\ cmds[th].pc = "load"
       /\ \/ Goto(th, "cfg") /\ UNCHANGED hist
          \/ Return(th) /\ Forgotten("play_task")
       /\ UNCHANGED <<innerVars, tasks, offVars>>
    \/ /\ cmds[th].pc \in {"cfg", "spawn", "set"}
       /\ StartTask(th, "play_wav_file", stop_playback, send_cfg)

\* start_recording: stop_recording, create the channel and spawn, set_recording;
\* spawn is the step that makes the channel and the task
start_recording_by(th, spawn) ==
    /\ cmds[th].op = "start_recording"
    /\ \/ /\ cmds[th].pc = "stop"
          /\ stop_recording
          /\ Goto(th, "spawn")
          /\ UNCHANGED <<innerRest, hist, offVars>>
       \/ /\ cmds[th].pc = "spawn"
          /\ spawn
          /\ UNCHANGED <<innerVars, hist, codecVars, recvRest, sendVars, hostVars>>
       \/ /\ cmds[th].pc = "set"
          /\ set_recording(cmds[th].handle, cmds[th].handle)
          /\ Installed("record_task", cmds[th].handle)
          /\ Return(th)
          /\ UNCHANGED <<innerRest, animation_state, tasks, offVars>>

\* the task of start_recording with its file written at once: the header at
\* spawn, a line per frame by RecordWrite
start_recording(th) ==
    start_recording_by(th,
        /\ Spawn(th, "record_task", None)
        /\ recorder' = [NoRecorder EXCEPT !.task = Len(tasks) + 1, !.start = now])

\* start_animation: stop_animation, set_animation_state, spawn, set_animation_task
start_animation(th) ==
    /\ cmds[th].op = "start_animation"
    /\ \/ /\ cmds[th].pc = "stop"
          /\ stop_animation_take
          /\ Goto(th, "clear")
          /\ UNCHANGED <<innerRest, hist, offVars>>
       \/ /\ cmds[th].pc = "clear"
          /\ stop_animation_clear
          /\ Goto(th, "state")
          /\ UNCHANGED <<innerRest, hist, offVars>>
       \/ /\ cmds[th].pc = "state"
          /\ animation_state' =
                [mode |-> cmds[th].arg.mode, frequency |-> cmds[th].arg.frequency,
                 master_value |-> cmds[th].arg.master_value, is_running |-> TRUE]
          /\ Goto(th, "spawn")
          /\ UNCHANGED <<innerRest, record_tx, slots, tasks, hist, offVars>>
       \/ /\ cmds[th].pc = "spawn"
          /\ Spawn(th, "animation_task", None)
          /\ UNCHANGED <<innerVars, hist, offVars>>
       \/ /\ cmds[th].pc = "set"
          /\ set_task("animation_task", cmds[th].handle)
          /\ Installed("animation_task", cmds[th].handle)
          /\ Return(th)
          /\ UNCHANGED <<innerRest, record_tx, animation_state, tasks, offVars>>

\* the stop commands of main.rs
StopCmd(th, op, stop) ==
    /\ cmds[th].op = op /\ cmds[th].pc = "stop"
    /\ stop
    /\ Forgotten(SlotOf(op))
    /\ Return(th)
    /\ UNCHANGED <<innerRest, offVars>>

stop_receiver_cmd(th)  == StopCmd(th, "stop_receiver", stop_receiver)
stop_sender_cmd(th)    == StopCmd(th, "stop_sender", stop_sender)
stop_recording_cmd(th) == StopCmd(th, "stop_recording", stop_recording)
stop_playback_cmd(th)  == StopCmd(th, "stop_playback", stop_playback)

stop_animation_cmd(th) ==
    /\ cmds[th].op = "stop_animation"
    /\ \/ /\ cmds[th].pc = "stop"
          /\ cmds' = [cmds EXCEPT ![th].pc = "clear",
                                  ![th].arg = (slots.animation_task # NoTask)]
          /\ stop_animation_take
          /\ Forgotten("animation_task")
          /\ UNCHANGED <<innerRest, offVars>>
       \/ /\ cmds[th].pc = "clear"
          /\ stop_animation_clear
          /\ Return(th)
          /\ UNCHANGED <<innerRest, hist, offVars>>

\* a task's future returns: the receiver, sender, recorder and players end on
\* an error (`?`) or at the end of their input; run_animation_task never does
TaskExit(t) ==
    /\ tasks[t].state = "running"
    /\ tasks[t].kind # "animation_task"
    /\ tasks' = [tasks EXCEPT ![t].state = "finished"]
    /\ UNCHANGED <<innerVars, cmds, hist, offVars>>

Step(th) ==
    \/ start_receiver(th) \/ start_sender(th) \/ play_file(th) \/ play_wav_file(th)
    \/ start_recording(th) \/ start_animation(th)
    \/ stop_receiver_cmd(th) \/ stop_sender_cmd(th) \/ stop_recording_cmd(th)
    \/ stop_playback_cmd(th) \/ stop_animation_cmd(th)

Init == InnerDefault /\ RunIdle /\ CodecIdle /\ RecvIdle /\ SendIdle /\ HostIdle

Next ==
    \/ \E th \in Threads, op \in Ops : Invoke(th, op)
    \/ \E th \in Threads : Step(th)
    \/ \E t \in DOMAIN tasks : TaskExit(t)

Spec == Init /\ [][Next]_vars

\* the commands one at a time: a command is invoked when none is in flight
NextSerial ==
    \/ \E th \in Threads, op \in Ops : AllIdle /\ Invoke(th, op)
    \/ \E th \in Threads : Step(th)
    \/ \E t \in DOMAIN tasks : TaskExit(t)

SpecSerial == Init /\ [][NextSerial]_vars


(***************************************************************************)
(* state.rs: the buffered recorder (RecordBuffer) and the AppState methods *)
(* on it.                                                                  *)
(***************************************************************************)
\* state.rs:14 has 200_000; the model's ring holds this many frames, so that
\* a run fills it and evicts
MAX_RECORD_FRAMES == 3

\* RecordBuffer::new at time t (start: Instant::now())
RecordBuffer_new(chs, active, t) ==
    [channels |-> chs, timestamps |-> <<>>,
     values |-> [i \in 1..Len(chs) |-> <<>>],
     addresses |-> <<>>, start |-> t, active |-> active]

Contains(seq, x) == \E i \in 1..Len(seq) : seq[i] = x

RECURSIVE normalize_from(_, _)
normalize_from(chs, result) ==
    IF chs = <<>> THEN result
    ELSE LET ch == Head(chs)
         IN  normalize_from(Tail(chs),
                            IF ch < 512 /\ ~Contains(result, ch)
                            THEN Append(result, ch) ELSE result)

normalize_channels(chs) == normalize_from(chs, <<>>)

\* u16::saturating_sub
saturating_sub(a, b) == IF a < b THEN 0 ELSE a - b

\* Vec::drain(0..n)
DropFront(seq, n) == SubSeq(seq, n + 1, Len(seq))

\* mutant: the newest frames are dropped instead of the oldest
enforce_limit_newest(b) ==
    IF Len(b.timestamps) <= MAX_RECORD_FRAMES THEN b
    ELSE [b EXCEPT !.timestamps = SubSeq(@, 1, MAX_RECORD_FRAMES),
                   !.addresses = SubSeq(@, 1, MAX_RECORD_FRAMES),
                   !.values = [i \in DOMAIN @ |->
                                 SubSeq(@[i], 1, MAX_RECORD_FRAMES)]]

enforce_limit(b) ==
    IF Len(b.timestamps) <= MAX_RECORD_FRAMES THEN b
    ELSE LET drop == Len(b.timestamps) - MAX_RECORD_FRAMES
         IN  [b EXCEPT !.timestamps = DropFront(@, drop),
                       !.addresses = DropFront(@, drop),
                       !.values = [i \in DOMAIN @ |->
                                     IF Len(@[i]) > drop
                                     THEN DropFront(@[i], drop) ELSE <<>>]]

\* mutant: a channel beyond the frame's values gets no byte
RecordBuffer_append_skip(b, frame, t) ==
    IF ~b.active THEN b
    ELSE enforce_limit(
           [b EXCEPT
              !.timestamps = Append(@, t - b.start),
              !.addresses = Append(@, <<frame.net, frame.subnet, frame.universe>>),
              !.values = [idx \in DOMAIN @ |->
                            IF idx <= Len(b.channels)
                               /\ b.channels[idx] < Len(frame.values)
                            THEN Append(@[idx], At(frame.values, b.channels[idx]))
                            ELSE @[idx]]])

\* mutant: the active flag is not consulted
RecordBuffer_append_always(b, frame, t) ==
    enforce_limit(
      [b EXCEPT
         !.timestamps = Append(@, t - b.start),
         !.addresses = Append(@, <<frame.net, frame.subnet, frame.universe>>),
         !.values = [idx \in DOMAIN @ |->
                       IF idx <= Len(b.channels)
                       THEN Append(@[idx],
                                   IF b.channels[idx] < Len(frame.values)
                                   THEN At(frame.values, b.channels[idx])
                                   ELSE 0)
                       ELSE @[idx]]])

\* RecordBuffer::append at time t
RecordBuffer_append(b, frame, t) ==
    IF ~b.active THEN b
    ELSE enforce_limit(
           [b EXCEPT
              !.timestamps = Append(@, t - b.start),
              !.addresses = Append(@, <<frame.net, frame.subnet, frame.universe>>),
              !.values = [idx \in DOMAIN @ |->
                            IF idx <= Len(b.channels)
                            THEN Append(@[idx],
                                        IF b.channels[idx] < Len(frame.values)
                                        THEN At(frame.values, b.channels[idx])
                                        ELSE 0)
                            ELSE @[idx]]])

\* Iterator::position: the 1-based place of the first x in seq, 0 for None
Position(seq, x) ==
    IF Contains(seq, x)
    THEN CHOOSE i \in 1..Len(seq) : seq[i] = x /\ \A j \in 1..(i - 1) : seq[j] # x
    ELSE 0

\* RecordBuffer::from_data at time t; data is a RecordData
RecordBuffer_from_data(data, active, t) ==
    [channels |-> data.channels, timestamps |-> data.timestamps,
     values |-> data.values, addresses |-> data.addresses,
     start |-> t, active |-> active]

\* mutant: the column of a channel not selected before starts empty
RecordBuffer_set_channels_empty(b, chs) ==
    [b EXCEPT !.channels = chs,
              !.values = [i \in 1..Len(chs) |->
                            IF Position(b.channels, chs[i]) # 0
                            THEN b.values[Position(b.channels, chs[i])]
                            ELSE <<>>]]

\* mutant: every column is made anew
RecordBuffer_set_channels_fresh(b, chs) ==
    [b EXCEPT !.channels = chs,
              !.values = [i \in 1..Len(chs) |-> [j \in 1..Len(b.timestamps) |-> 0]]]

\* RecordBuffer::set_channels
RecordBuffer_set_channels(b, chs) ==
    LET frame_count == Len(b.timestamps)
    IN  [b EXCEPT !.channels = chs,
                  !.values = [i \in 1..Len(chs) |->
                                IF Position(b.channels, chs[i]) # 0
                                THEN b.values[Position(b.channels, chs[i])]
                                ELSE [j \in 1..frame_count |-> 0]]]

\* RecordBuffer::duration_ms
duration_ms(b) == IF b.timestamps = <<>> THEN 0 ELSE b.timestamps[Len(b.timestamps)]

PreviewResponse(points, frame_count, duration) ==
    [points |-> points, frame_count |-> frame_count, duration_ms |-> duration]

\* the division of usize values in f64, rounded up
ceil_div(a, b) == (a + b - 1) \div b

\* the while loop of preview: the samples at i, i + step, ... below total
RECURSIVE Sampled(_, _, _, _)
Sampled(b, col, i, step) ==
    IF i >= Len(col) THEN <<>>
    ELSE (IF i < Len(b.timestamps)
          THEN <<[t_ms |-> At(b.timestamps, i), value |-> At(col, i)]>>
          ELSE <<>>)
         \o Sampled(b, col, i + step, step)

\* mutant: the final sample is never added
WithLast_never(b, col, points) == points

\* the end of the sampled branch: the final sample is added when the last
\* point's t_ms is not the last timestamp
WithLast(b, col, points) ==
    LET last_t == IF b.timestamps = <<>> THEN None
                  ELSE Some(b.timestamps[Len(b.timestamps)])
        last_p == IF points = <<>> THEN None ELSE Some(points[Len(points)].t_ms)
    IN  IF last_p # last_t /\ Len(col) - 1 < Len(b.timestamps)
        THEN Append(points, [t_ms |-> At(b.timestamps, Len(col) - 1),
                             value |-> At(col, Len(col) - 1)])
        ELSE points

\* RecordBuffer::preview: None when the channel is not selected
RecordBuffer_preview(b, channel, max_points) ==
    LET idx == Position(b.channels, channel)
    IN  IF idx = 0 \/ idx > Len(b.values) THEN None
        ELSE LET col == b.values[idx]
                 total == Len(col)
                 step == ceil_div(total, max_points)
             IN  IF total = 0 \/ max_points = 0
                 THEN Some(PreviewResponse(<<>>, total, duration_ms(b)))
                 ELSE IF total <= max_points
                 THEN Some(PreviewResponse(Sampled(b, col, 0, 1), total, duration_ms(b)))
                 ELSE Some(PreviewResponse(
                             WithLast(b, col,
                                      Sampled(b, col, 0, IF step < 1 THEN 1 ELSE step)),
                             total, duration_ms(b)))

\* AppState::record_preview
record_preview(channel, max_points) ==
    IF record_buffer = None THEN None
    ELSE RecordBuffer_preview(record_buffer[1], channel, max_points)

start_buffered_recording(chs) ==
    record_buffer' = Some(RecordBuffer_new(normalize_channels(chs), TRUE, now))

\* AppState::set_record_channels
set_record_channels(chs) ==
    record_buffer' =
      IF record_buffer # None
      THEN Some(RecordBuffer_set_channels(record_buffer[1], normalize_channels(chs)))
      ELSE Some(RecordBuffer_new(normalize_channels(chs), FALSE, now))

\* mutant: the loaded record is made active
load_record_data_active(data, active) ==
    record_buffer' = Some(RecordBuffer_from_data(data, TRUE, now))

\* AppState::load_record_data
load_record_data(data, active) ==
    record_buffer' = Some(RecordBuffer_from_data(data, active, now))

stop_buffered_recording ==
    record_buffer' = IF record_buffer = None THEN None
                     ELSE Some([record_buffer[1] EXCEPT !.active = FALSE])

clear_record_buffer == record_buffer' = None

append_record_frame(frame) ==
    record_buffer' = IF record_buffer = None THEN None
                     ELSE Some(RecordBuffer_append(record_buffer[1], frame, now))

set_event_filter(f) == event_filter' = f

(***************************************************************************)
(* SpecRecv: run_receiver_task dispatching datagrams, with the commands    *)
(* that set the filter and start and stop the two recorders.               *)
(*                                                                         *)
(* The receiver emits without the lock and takes the lock three times per  *)
(* frame (filter, append_record_frame, record_tx); each is one step.       *)
(* Events and queued frames carry the arrival number k of their datagram.  *)
(***************************************************************************)
\* datagrams received in one run
MaxDatagrams == 2
\* the clock runs from 0 to MaxNow milliseconds
MaxNow == 1
\* filter and buffered-recorder commands issued in one run
MaxCommands == 2

\* state.rs:553  let mut buf = [0u8; 2048]
RecvBufSize == 2048

Addressed(n, s, u) ==
    [SenderConfigDefault EXCEPT !.net = n, !.subnet = s, !.universe = u]

\* a well-formed ArtDMX datagram for universe 0/0/5 with two channels
Datagram5 == encode_artdmx(Addressed(0, 0, 5), Dense({<<0, 10>>, <<1, 20>>}), 1)

\* what the network delivers: two well-formed datagrams, one with the Net
\* byte 200 and Length 3, one with Length 0, one cut short, one with
\* another ID, an ArtPoll (OpCode 0x2000), one with Length 4 and two bytes
Datagrams ==
    { Datagram5,
      encode_artdmx(Addressed(0, 0, 4), Dense({<<0, 30>>}), 2),
      [Datagram5 EXCEPT ![16] = 200, ![18] = 3] \o <<40>>,
      [SubSeq(Datagram5, 1, 18) EXCEPT ![18] = 0],
      SubSeq(Datagram5, 1, 10),
      [Datagram5 EXCEPT ![1] = 66],
      [Datagram5 EXCEPT ![10] = 32],
      [Datagram5 EXCEPT ![18] = 4] }

\* a datagram that is too short, has another ID, another OpCode than
\* ArtDmx, or declares more data than it carries
Malformed(d) ==
    \/ Len(d) < 18
    \/ Slice(d, 0, 8) # ARTNET_ID
    \/ from_le_bytes(At(d, 8), At(d, 9)) # OP_OUTPUT
    \/ Len(d) - 18 < from_be_bytes(At(d, 16), At(d, 17))

\* the filters set_event_filter is called with
EventFilters == { None, Some(<<0, 0, 5>>) }

\* the 1-based channel lists start_buffered_recording and
\* set_record_channels are called with
RecordChannelArgs == { <<1, 1, 2, 600>>, <<0, 3>>, <<600>> }

\* the arguments get_recording_preview is called with
PreviewChannels  == {0, 1, 3}
PreviewMaxPoints == {0, 1, MAX_RECORD_FRAMES}

\* a recording file: the "channels" array of its header and its lines
JsonlLine(t, u, vals) ==
    [t_ms |-> t, net |-> 0, subnet |-> 0, universe |-> u, values |-> vals]

\* a file with one line more than the ring holds
LongFile ==
    [channels |-> <<1, 3>>,
     lines |-> [i \in 1..(MAX_RECORD_FRAMES + 1) |-> JsonlLine(10 * i, 5, <<i, 7>>)]]

\* a file whose header names a channel twice
ShortFile == [channels |-> <<2, 2>>, lines |-> <<JsonlLine(0, 4, <<9>>)>>]

\* the files load_recording is called with
JsonlFiles == { LongFile, ShortFile }

\* a WavRecordingData as load_wav_recording returns it: two channels, two
\* frames
WavFile == [timestamps |-> <<0, 20>>, channels |-> <<<<5, 6>>, <<0, 8>>>>]

\* the recording of a WAV file whose fmt chunk declares 513 channels
WideWav == [timestamps |-> <<0>>, channels |-> [c \in 1..(DmxSize + 1) |-> <<c % U8>>]]

WavFiles == { WavFile, WideWav }

\* the paths load_recording is called with, by what the file holds
LoadPaths ==
    { [wav |-> FALSE, file |-> f] : f \in JsonlFiles }
      \cup { [wav |-> TRUE, file |-> w] : w \in WavFiles }

\* parse_jsonl_file (main.rs 101-181) on a file whose header has "format" and
\* "channels": the RecordData, or the buffer's fields by the same names
parse_jsonl_file(file) ==
    LET mapped   == [i \in DOMAIN file.channels |-> saturating_sub(file.channels[i], 1)]
        InRange(n) == n < 512
        chs      == SelectSeq(mapped, InRange)
    IN  [timestamps |-> [l \in DOMAIN file.lines |-> file.lines[l].t_ms],
         addresses  |-> [l \in DOMAIN file.lines |->
                           <<file.lines[l].net, file.lines[l].subnet,
                             file.lines[l].universe>>],
         channels   |-> normalize_channels(chs),
         values     |-> [idx \in DOMAIN chs |->
                           [l \in DOMAIN file.lines |->
                              IF idx <= Len(file.lines[l].values)
                              THEN file.lines[l].values[idx] ELSE 0]]]

\* record_data_from_wav (main.rs 183-191)
record_data_from_wav(data) ==
    [timestamps |-> data.timestamps,
     addresses  |-> [i \in DOMAIN data.timestamps |-> <<0, 0, 0>>],
     channels   |-> [i \in 1..Len(data.channels) |-> i - 1],
     values     |-> data.channels]

\* the receiver task spawned by the setup hook of main()
Receiver == 1

InitRecv ==
    /\ recv_cfg = ReceiverConfigDefault
    /\ send_cfg = SenderConfigDefault
    /\ channels = ZeroChannels
    /\ sequence = 0
    /\ record_tx = None
    /\ record_buffer = None
    /\ animation_state = AnimationStateDefault
    /\ event_filter = None
    /\ slots = [s \in Slots |-> IF s = "recv_task" THEN Receiver ELSE NoTask]
    /\ tasks = <<[kind |-> "recv_task", state |-> "running",
                  cfg |-> ReceiverConfigDefault]>>
    /\ cmds = [th \in Threads |-> Idle]
    /\ hist = [s \in Slots |-> IF s = "recv_task" THEN <<Receiver>> ELSE <<>>]
    /\ CodecIdle /\ RecvIdle /\ SendIdle /\ HostIdle

\* mutant: the filter is not consulted
passes_all(filter, frame) == TRUE

\* state.rs 562-567: the match on the filter snapshot
passes(filter, frame) ==
    IF filter = None THEN TRUE
    ELSE filter[1] = <<frame.net, frame.subnet, frame.universe>>

\* mutant: the buffered append is made before the filtered emit
RxAfter_swapped(pc, pass) ==
    CASE pc = "emit"     -> "filter"
      [] pc = "filter"   -> IF pass THEN "append" ELSE "forward"
      [] pc = "append"   -> "filtered"
      [] pc = "filtered" -> "forward"
      [] pc = "forward"  -> "recv"

\* the order of the statements of the loop body (state.rs 559-575)
RxAfter(pc, pass) ==
    CASE pc = "emit"     -> "filter"
      [] pc = "filter"   -> IF pass THEN "filtered" ELSE "forward"
      [] pc = "filtered" -> "append"
      [] pc = "append"   -> "forward"
      [] pc = "forward"  -> "recv"

Tagged == [k |-> rx.k, frame |-> rx.frame]

\* the buffered recorder stores the frames it is given
Storing == record_buffer # None /\ record_buffer[1].active

\* what is noted of the k-th datagram's frame when append_record_frame is
\* called with it: the row it makes, and the frame and its time
Stored(k, frame) ==
    /\ rows' = IF ~Storing THEN rows
               ELSE IF Len(rows) + 1 <= MAX_RECORD_FRAMES
                    THEN Append(rows, k)
                    ELSE DropFront(Append(rows, k),
                                   Len(rows) + 1 - MAX_RECORD_FRAMES)
    /\ fed' = IF Storing /\ fed.frames # None
              THEN [fed EXCEPT !.frames =
                      Some(Append(@[1], [t_ms |-> now - record_buffer[1].start,
                                         frame |-> frame]))]
              ELSE IF fed.loaded THEN [fed EXCEPT !.offered = TRUE]
              ELSE fed

cmdQuiet  == <<send_cfg, recv_cfg, channels, sequence, animation_state, slots,
               runVars, codecVars, sendVars, now, wire, play, anim, held>>
recvQuiet == <<cmdQuiet, issued, reply>>

\* stop_recording has run and no session has been installed since
Stopped ==
    /\ record_tx = None
    /\ \E t \in DOMAIN tasks :
          tasks[t].kind = "record_task" /\ tasks[t].state = "aborted"

\* sock.recv_from(&mut buf) and parse_artdmx(&buf[..n]); a datagram that does
\* not parse is dropped.  rx.malformed notes the arrivals that were
\* Malformed, rx.late those decoded after a stop_recording with no session
\* installed
RxRecv ==
    /\ rx.pc = "recv"
    /\ tasks[Receiver].state = "running"
    /\ arrived < MaxDatagrams
    /\ \E d \in Datagrams :
          LET n == IF Len(d) < RecvBufSize THEN Len(d) ELSE RecvBufSize
              r == parse_artdmx(SubSeq(d, 1, n))
              noted == [rx EXCEPT !.malformed =
                          IF Malformed(d) THEN @ \cup {arrived + 1} ELSE @,
                                  !.late =
                          IF r.ok /\ Stopped THEN @ \cup {arrived + 1} ELSE @]
          IN  rx' = IF r.ok
                    THEN [noted EXCEPT !.pc = "emit", !.k = arrived + 1,
                                       !.frame = r.frame, !.filter = None,
                                       !.pass = FALSE]
                    ELSE noted
    /\ arrived' = arrived + 1
    /\ UNCHANGED <<recvQuiet, record_tx, record_buffer, fed, event_filter,
                   dmx, dmx_filtered, recorder, log, done, rows>>

\* window.emit("artnet:dmx", &frame)
RxEmit ==
    /\ rx.pc = "emit"
    /\ dmx' = Append(dmx, Tagged)
    /\ log' = Append(log, <<rx.k, "dmx">>)
    /\ rx' = [rx EXCEPT !.pc = RxAfter("emit", FALSE)]
    /\ UNCHANGED <<recvQuiet, record_tx, record_buffer, fed, event_filter,
                   arrived, dmx_filtered, recorder, done, rows>>

\* let filter = { app_state.inner.lock().unwrap().event_filter }; let pass = ..
RxFilter ==
    /\ rx.pc = "filter"
    /\ LET pass == passes(event_filter, rx.frame)
       IN  rx' = [rx EXCEPT !.filter = event_filter, !.pass = pass,
                            !.pc = RxAfter("filter", pass)]
    /\ UNCHANGED <<recvQuiet, record_tx, record_buffer, fed, event_filter,
                   arrived, dmx, dmx_filtered, recorder, log, done, rows>>

\* window.emit("artnet:dmx_filtered", &frame)
RxEmitFiltered ==
    /\ rx.pc = "filtered"
    /\ dmx_filtered' = Append(dmx_filtered, Tagged)
    /\ log' = Append(log, <<rx.k, "dmx_filtered">>)
    /\ rx' = [rx EXCEPT !.pc = RxAfter("filtered", TRUE)]
    /\ UNCHANGED <<recvQuiet, record_tx, record_buffer, fed, event_filter,
                   arrived, dmx, recorder, done, rows>>

\* app_state.append_record_frame(&frame); the log tells a call that stored a
\* row ("row") from one the recorder ignored
RxAppend ==
    /\ rx.pc = "append"
    /\ append_record_frame(rx.frame)
    /\ Stored(rx.k, rx.frame)
    /\ log' = log \o <<<<rx.k, "append">>>>
                  \o (IF Storing THEN <<<<rx.k, "row">>>> ELSE <<>>)
    /\ rx' = [rx EXCEPT !.pc = RxAfter("append", TRUE)]
    /\ UNCHANGED <<recvQuiet, record_tx, event_filter,
                   arrived, dmx, dmx_filtered, recorder, done>>

\* if let Some(tx) = ...record_tx.clone() { let _ = tx.send(frame); }
\* the guard lives to the end of the if-let, so the send is made under the
\* lock; send fails when the recorder task has dropped the receiving end
RxForward ==
    /\ rx.pc = "forward"
    /\ IF record_tx = None
       THEN UNCHANGED <<recorder, log>>
       ELSE IF recorder.task = record_tx[1] /\ tasks[recorder.task].state = "running"
            THEN /\ recorder' = [recorder EXCEPT !.queue = Append(@, Tagged)]
                 /\ log' = Append(log, <<rx.k, "enqueue">>)
            ELSE /\ log' = Append(log, <<rx.k, "closed">>)
                 /\ UNCHANGED recorder
    /\ done' = Append(done, [k |-> rx.k, frame |-> rx.frame,
                             filter |-> rx.filter, tx |-> record_tx])
    /\ rx' = [rx EXCEPT !.pc = RxAfter("forward", TRUE)]
    /\ UNCHANGED <<recvQuiet, record_tx, record_buffer, fed, event_filter,
                   arrived, dmx, dmx_filtered, rows>>

\* run_record_task: one frame taken from the channel and written as a line
RecordWrite ==
    /\ recorder.task # NoTask
    /\ tasks[recorder.task].state = "running"
    /\ recorder.queue # <<>>
    /\ LET q == Head(recorder.queue)
       IN  recorder' =
             [recorder EXCEPT
                !.queue = Tail(@),
                !.lines = Append(@, [k |-> q.k, t_ms |-> now - recorder.start,
                                     net |-> q.frame.net, subnet |-> q.frame.subnet,
                                     universe |-> q.frame.universe,
                                     length |-> q.frame.length,
                                     values |-> q.frame.values])]
    /\ UNCHANGED <<innerVars, runVars, codecVars, sendVars, recvRest, hostVars>>

Tick ==
    /\ now < MaxNow
    /\ now' = now + 1
    /\ UNCHANGED <<innerVars, runVars, codecVars, sendVars, hostVars, recorder,
                   rx, arrived, dmx, dmx_filtered, issued, log, done, rows>>

\* the single-lock commands of main.rs; they run on the main thread
Issue ==
    /\ cmds[Main].op = "idle"
    /\ issued < MaxCommands
    /\ issued' = issued + 1

set_event_filter_cmd ==
    /\ Issue
    /\ \E f \in EventFilters : set_event_filter(f)
    /\ UNCHANGED <<cmdQuiet, record_tx, record_buffer, recorder, reply, fed,
                   rx, arrived, dmx, dmx_filtered, log, done, rows>>

\* channels.into_iter().map(|c| c.saturating_sub(1) as usize)
ToIndexes(chs) == [i \in DOMAIN chs |-> saturating_sub(chs[i], 1)]
\* normalized.into_iter().map(|c| (c + 1) as u16)
ToNumbers(idxs) == [i \in DOMAIN idxs |-> idxs[i] + 1]

\* main.rs 335-347
start_buffered_recording_cmd ==
    /\ Issue
    /\ \E chs \in RecordChannelArgs :
          /\ start_buffered_recording(ToIndexes(chs))
          /\ reply' = Ok("start_buffered_recording",
                         [channels |-> chs,
                          returned |-> ToNumbers(normalize_channels(ToIndexes(chs)))])
    /\ rows' = <<>>
    /\ fed' = [loaded |-> FALSE, frames |-> Some(<<>>), offered |-> FALSE]
    /\ UNCHANGED <<cmdQuiet, record_tx, event_filter, recorder,
                   rx, arrived, dmx, dmx_filtered, log, done>>

stop_buffered_recording_cmd ==
    /\ Issue
    /\ stop_buffered_recording
    /\ reply' = Ok("stop_buffered_recording", <<>>)
    /\ UNCHANGED <<cmdQuiet, record_tx, event_filter, recorder, fed,
                   rx, arrived, dmx, dmx_filtered, log, done, rows>>

clear_record_buffer_cmd ==
    /\ Issue
    /\ clear_record_buffer
    /\ reply' = Ok("clear_record_buffer", <<>>)
    /\ rows' = <<>>
    /\ fed' = NoFed
    /\ UNCHANGED <<cmdQuiet, record_tx, event_filter, recorder,
                   rx, arrived, dmx, dmx_filtered, log, done>>

\* main.rs 359-371
set_record_channels_cmd ==
    /\ Issue
    /\ \E chs \in RecordChannelArgs :
          /\ set_record_channels(ToIndexes(chs))
          /\ reply' = Ok("set_record_channels",
                         [channels |-> chs,
                          returned |-> ToNumbers(normalize_channels(ToIndexes(chs)))])
    /\ fed' = [fed EXCEPT !.frames = None]
    /\ UNCHANGED <<cmdQuiet, record_tx, event_filter, recorder,
                   rx, arrived, dmx, dmx_filtered, log, done, rows>>

\* main.rs 412-436: a path ending in ".wav" is read by load_wav_recording,
\* any other by parse_jsonl_file
load_recording_cmd ==
    /\ Issue
    /\ \E path \in LoadPaths :
          LET data == IF path.wav THEN record_data_from_wav(path.file)
                      ELSE parse_jsonl_file(path.file)
          IN  /\ load_record_data(data, FALSE)
              /\ reply' = Ok("load_recording",
                             [channels |-> ToNumbers(data.channels),
                              frames |-> Len(data.timestamps),
                              duration_ms |-> duration_ms(data),
                              format |-> IF path.wav THEN "wav" ELSE "jsonl"])
    /\ rows' = <<>>
    /\ fed' = [loaded |-> TRUE, frames |-> None, offered |-> FALSE]
    /\ UNCHANGED <<cmdQuiet, record_tx, event_filter, recorder,
                   rx, arrived, dmx, dmx_filtered, log, done>>

\* main.rs 373-390
get_recording_preview_cmd ==
    /\ Issue
    /\ \E channel \in PreviewChannels, max_points \in PreviewMaxPoints :
          LET preview == record_preview(saturating_sub(channel, 1), max_points)
          IN  reply' =
                IF channel = 0
                THEN Err("get_recording_preview", "Channel must be greater than zero")
                ELSE Ok("get_recording_preview",
                        [channel |-> channel, max_points |-> max_points,
                         response |-> IF preview = None
                                      THEN PreviewResponse(<<>>, 0, 0)
                                      ELSE preview[1]])
    /\ UNCHANGED <<cmdQuiet, record_tx, record_buffer, event_filter, recorder, fed,
                   rx, arrived, dmx, dmx_filtered, log, done, rows>>

\* RecordData::frame_count
frame_count(data) == Len(data.timestamps)

\* mutant: an empty record is written like any other
write_buffer_as_wav_any(data) == Ok("save_buffered_recording_wav", <<>>)

\* write_buffer_as_wav (main.rs 80-99): the error of an empty record, or
\* the outcome of save_wav_recording
write_buffer_as_wav(data) ==
    IF frame_count(data) = 0 THEN Err("save_buffered_recording_wav", "No recorded frames")
    ELSE Ok("save_buffered_recording_wav", <<>>)

saveQuiet == <<cmdQuiet, record_tx, record_buffer, event_filter, recorder, fed,
               rx, arrived, dmx, dmx_filtered, log, done, rows>>

\* main.rs 392-401: record_data_snapshot, then write_buffer_as_jsonl
save_buffered_recording_jsonl_cmd ==
    /\ Issue
    /\ reply' = IF record_buffer = None
                THEN Err("save_buffered_recording_jsonl", "No recording data available")
                ELSE Ok("save_buffered_recording_jsonl", <<>>)
    /\ UNCHANGED saveQuiet

\* main.rs 403-409: record_data_snapshot, then write_buffer_as_wav
save_buffered_recording_wav_cmd ==
    /\ Issue
    /\ reply' = IF record_buffer = None
                THEN Err("save_buffered_recording_wav", "No recording data available")
                ELSE write_buffer_as_wav(record_buffer[1])
    /\ UNCHANGED saveQuiet

NextRecv ==
    \/ RxRecv \/ RxEmit \/ RxFilter \/ RxEmitFiltered \/ RxAppend \/ RxForward
    \/ RecordWrite \/ Tick
    \/ set_event_filter_cmd \/ start_buffered_recording_cmd
    \/ stop_buffered_recording_cmd \/ clear_record_buffer_cmd
    \/ Invoke(Main, "start_recording")
    \/ record_tx # None /\ Invoke(Main, "stop_recording")
    \/ start_recording(Main) \/ stop_recording_cmd(Main)
    \/ \E t \in DOMAIN tasks : tasks[t].kind = "record_task" /\ TaskExit(t)

SpecRecv == InitRecv /\ [][NextRecv]_vars

(***************************************************************************)
(* SpecRecord: the buffered recorder under its commands and the frames the *)
(* receiver hands it.  One frame is one step here: the call                *)
(* append_record_frame (state.rs 570) of a frame that passed the filter.   *)
(***************************************************************************)
\* frames handed to the recorder in one run: the ring fills and evicts
RecordRun == MAX_RECORD_FRAMES + 1

\* the frames of the well-formed datagrams
RecordFrames ==
    { parse_artdmx(d).frame : d \in { e \in Datagrams : parse_artdmx(e).ok } }

RecordFrame ==
    /\ arrived < RecordRun
    /\ \E frame \in RecordFrames :
          /\ append_record_frame(frame)
          /\ Stored(arrived + 1, frame)
    /\ arrived' = arrived + 1
    /\ UNCHANGED <<recvQuiet, record_tx, event_filter,
                   rx, dmx, dmx_filtered, recorder, log, done>>

NextRecord ==
    \/ RecordFrame \/ Tick
    \/ start_buffered_recording_cmd \/ stop_buffered_recording_cmd
    \/ clear_record_buffer_cmd \/ set_record_channels_cmd
    \/ load_recording_cmd \/ get_recording_preview_cmd
    \/ save_buffered_recording_jsonl_cmd \/ save_buffered_recording_wav_cmd

SpecRecord == InitRecv /\ [][NextRecord]_vars


(***************************************************************************)
(* SpecSend: run_sender_task and push_frame drawing sequence bytes from    *)
(* next_sequence.                                                          *)
(*                                                                         *)
(* It starts where start_sender has installed the sender task.  push_frame *)
(* is an async command: it runs on the workers, concurrently with the      *)
(* sender task and with other push_frame calls.  The datagrams themselves  *)
(* leave the program and are not kept; SpecCodec has their encoding.       *)
(***************************************************************************)
\* next_sequence calls made by others while a caller holds a sequence byte
\* it has not sent yet
MaxLag == 2

\* counter values at which the count of next_sequence calls may begin
MarkAt == {0, 1, 200, 255}

\* the sender task spawned by start_sender
Sender == 1

Workers == Threads \ {Main}

InitSend ==
    /\ recv_cfg = ReceiverConfigDefault
    /\ send_cfg = SenderConfigDefault
    /\ channels = ZeroChannels
    /\ sequence = 0
    /\ record_tx = None
    /\ record_buffer = None
    /\ animation_state = AnimationStateDefault
    /\ event_filter = None
    /\ slots = [s \in Slots |-> IF s = "send_task" THEN Sender ELSE NoTask]
    /\ tasks = <<[kind |-> "send_task", state |-> "running",
                  cfg |-> SenderConfigDefault]>>
    /\ cmds = [th \in Threads |-> Idle]
    /\ hist = [s \in Slots |-> IF s = "send_task" THEN <<Sender>> ELSE <<>>]
    /\ CodecIdle /\ RecvIdle /\ SendIdle /\ HostIdle

\* mutant: the counter stops at 255
saturating_add(a, b) == IF a + b > U8 - 1 THEN U8 - 1 ELSE a + b

\* u8::wrapping_add
wrapping_add(a, b) == (a + b) % U8

\* the sequence bytes drawn and not yet sent
Held ==
    (IF snd.pc = "send" THEN {snd.seq} ELSE {})
      \cup { cmds[th].seq : th \in { w \in Workers : cmds[w].op = "push_frame"
                                                     /\ cmds[w].pc = "send" } }

\* AppState::next_sequence called by `who`: the counter is advanced and the
\* new value returned, under one lock.  The call is counted from the mark on,
\* in blocks of 256.
next_sequence(who) ==
    /\ \A q \in Held : (sequence - q) % U8 < MaxLag
    /\ sequence' = wrapping_add(sequence, 1)
    /\ last_call' = Some([who |-> who, prev |-> sequence, stored |-> sequence'])
    /\ IF mark = None THEN UNCHANGED <<mark, calls>>
       ELSE IF calls = U8
            THEN /\ mark' = Some(sequence)
                 /\ calls' = 1
            ELSE /\ calls' = calls + 1
                 /\ UNCHANGED mark

sendQuiet == <<recv_cfg, send_cfg, channels, record_tx, record_buffer,
               animation_state, event_filter, slots, tasks, hist,
               codecVars, recvVars, reply, fed, play, anim>>

\* mutant: the lower half of the buffer is not copied
channels_snapshot_upper == { c \in channels : c[1] >= DmxSize \div 2 }

\* AppState::channels_snapshot: the copy of the buffer made under the lock
channels_snapshot == channels

\* a tick or a push_frame begins, and ends
Begun(h) == IF h = {} THEN {channels} ELSE h
\* the live buffer is given the value `new`
Noted(new) ==
    held' = [sender |-> IF held.sender = {} THEN {} ELSE held.sender \cup {new},
             push |-> [th \in DOMAIN held.push |->
                         IF held.push[th] = {} THEN {}
                         ELSE held.push[th] \cup {new}]]

\* mutant: the task reads the shared config at every packet
sender_cfg_live(t) == send_cfg

\* the cfg argument of run_sender_task, moved into the task by start_sender
sender_cfg(t) == tasks[t].cfg

\* the tick period in ms: ((1000.0 / cfg.fps.max(1)).round() as u64).max(1)
period_ms(cfg) ==
    LET fps == IF cfg.fps < 1 THEN 1 ELSE cfg.fps
        rounded == (2 * 1000 + fps) \div (2 * fps)
    IN  IF rounded < 1 THEN 1 ELSE rounded

\* what identifies a datagram of sender task t: where it goes, its address
\* fields, and the period of the interval that released it; with it, the
\* shared config at the time it is sent
Packet(t) ==
    [task |-> t,
     target_ip |-> sender_cfg(t).target_ip, port |-> sender_cfg(t).port,
     net |-> sender_cfg(t).net, subnet |-> sender_cfg(t).subnet,
     universe |-> sender_cfg(t).universe, period |-> period_ms(sender_cfg(t)),
     shared |-> send_cfg]

\* interval.tick().await; let last = app_state.channels_snapshot()
SndSnapshot ==
    /\ snd.pc = "tick"
    /\ \E t \in DOMAIN tasks :
          /\ tasks[t].kind = "send_task" /\ tasks[t].state = "running"
          /\ snd' = [snd EXCEPT !.pc = "seq", !.task = t, !.last = channels_snapshot]
    /\ held' = [held EXCEPT !.sender = Begun(@)]
    /\ UNCHANGED <<sendQuiet, sequence, cmds, mark, calls, last_call, wire>>

\* let seq = app_state.next_sequence()
SndSeq ==
    /\ snd.pc = "seq"
    /\ next_sequence("sender")
    /\ snd' = [snd EXCEPT !.pc = "send", !.seq = sequence']
    /\ UNCHANGED <<sendQuiet, cmds, wire, held>>

\* let _ = artnet::send_artdmx(&sock, &cfg, &last, seq).await: the datagram
\* leaves, or the error is dropped; the locals of the loop body end here
SndSend ==
    /\ snd.pc = "send"
    /\ wire' = Some(Packet(snd.task))
    /\ snd' = SndIdle
    /\ held' = [held EXCEPT !.sender = {}]
    /\ UNCHANGED <<sendQuiet, sequence, cmds, mark, calls, last_call>>

\* push_frame (main.rs 254-264): config, snapshot, next_sequence, then the
\* socket is made and the datagram sent, or the error returned
push_frame(th) ==
    \/ /\ cmds[th].op = "idle"
       /\ cmds' = [cmds EXCEPT ![th] = [Idle EXCEPT !.op = "push_frame",
                                                   !.pc = "data",
                                                   !.cfg = send_cfg]]
       /\ held' = [held EXCEPT !.push[th] = Begun(@)]
       /\ UNCHANGED <<sendQuiet, sequence, snd, mark, calls, last_call, wire>>
    \/ /\ cmds[th].op = "push_frame" /\ cmds[th].pc = "data"
       /\ cmds' = [cmds EXCEPT ![th].arg = channels_snapshot, ![th].pc = "seq"]
       /\ UNCHANGED <<sendQuiet, sequence, snd, mark, calls, last_call, wire, held>>
    \/ /\ cmds[th].op = "push_frame" /\ cmds[th].pc = "seq"
       /\ next_sequence("push_frame")
       /\ cmds' = [cmds EXCEPT ![th].seq = sequence', ![th].pc = "send"]
       /\ UNCHANGED <<sendQuiet, snd, wire, held>>
    \/ /\ cmds[th].op = "push_frame" /\ cmds[th].pc = "send"
       /\ Return(th)
       /\ held' = [held EXCEPT !.push[th] = {}]
       /\ UNCHANGED <<sendQuiet, sequence, snd, mark, calls, last_call, wire>>

\* the count of calls begins
Mark ==
    /\ mark = None
    /\ sequence \in MarkAt
    /\ mark' = Some(sequence)
    /\ calls' = 0
    /\ UNCHANGED <<sendQuiet, sequence, cmds, snd, last_call, wire, held>>

NextSend ==
    \/ SndSnapshot \/ SndSeq \/ SndSend
    \/ \E th \in Workers : push_frame(th)
    \/ Mark

SpecSend == InitSend /\ [][NextSend]_vars

(***************************************************************************)
(* SpecCfg: start_sender, set_sender_config and the sender tasks' packets. *)
(* It starts from AppState::default; up to MaxTasks sender tasks are       *)
(* started, the second one replacing the first.                            *)
(***************************************************************************)
\* the sequence counter's value at which no further packet is begun
MaxSends == 2

\* the configs set_sender_config is called with
SenderCfgArgs ==
    { [target_ip |-> "10.0.0.5", port |-> ARTNET_PORT + 1,
       net |-> 1, subnet |-> 2, universe |-> 3, fps |-> 25],
      [SenderConfigDefault EXCEPT !.universe = 9, !.fps = 0] }

\* main.rs 230-233, state.rs 314-316
set_sender_config_cmd ==
    /\ Issue
    /\ \E cfg \in SenderCfgArgs : send_cfg' = cfg
    /\ reply' = Ok("set_sender_config", <<>>)
    /\ UNCHANGED <<recv_cfg, channels, sequence, animation_state, slots, runVars,
                   codecVars, sendVars, now, wire, play, anim, fed, held,
                   record_tx, record_buffer, event_filter, recorder,
                   rx, arrived, dmx, dmx_filtered, log, done, rows>>

NextCfg ==
    \/ \E th \in Workers : Invoke(th, "start_sender")
    \/ \E th \in Workers : start_sender(th)
    \/ set_sender_config_cmd
    \/ sequence < MaxSends /\ SndSnapshot
    \/ SndSeq \/ SndSend

SpecCfg == Init /\ [][NextCfg]_vars


(***************************************************************************)
(* Claims about the task slots (Spec, SpecSerial).                         *)
(***************************************************************************)
Running(s) == { t \in DOMAIN tasks : tasks[t].kind = s /\ tasks[t].state = "running" }

\* C1: after start_X was called twice, one call after the other, with no
\* stop_X in between, the task of the first call is cancelled and the slot
\* holds the handle of the task of the second call (every slot X).
C1_RestartCancelsPrevious ==
    \A s \in Slots :
        (AllIdle /\ Len(hist[s]) = 2) =>
            /\ tasks[hist[s][1]].state # "running"
            /\ slots[s] = hist[s][2]

\* two starts of one slot have returned; the first task was running when the
\* second start aborted it
C1_Witness ==
    /\ AllIdle
    /\ \E s \in Slots :
          /\ Len(hist[s]) = 2
          /\ tasks[hist[s][1]].state = "aborted"
          /\ tasks[hist[s][2]].state = "running"

\* C2: for every interleaving of concurrent start_X and stop_X commands there
\* is at most one task of slot X that has not been cancelled, and it is the
\* one whose handle the slot holds.  Stated for the moments at which no
\* command is in flight, where the claim leaves no room: every running task
\* of a slot is the task the slot holds.
C2_OneLiveTaskPerSlot ==
    AllIdle => \A s \in Slots : \A t \in Running(s) : slots[s] = t

\* C3: a stop command invoked while its slot holds no task leaves the shared
\* state (every field of Inner) and the tasks unchanged.  stop_animation
\* takes two steps; arg records whether its first step found a task.
StopsEmpty(th) ==
    \/ /\ cmds[th].op \in {"stop_receiver", "stop_sender", "stop_recording",
                           "stop_playback", "stop_animation"}
       /\ cmds[th].pc = "stop"
       /\ slots[SlotOf(cmds[th].op)] = NoTask
    \/ /\ cmds[th].op = "stop_animation"
       /\ cmds[th].pc = "clear"
       /\ cmds[th].arg = FALSE

C3_StopEmptyIsNoOp ==
    [][ \A th \in Threads :
          (StopsEmpty(th) /\ cmds'[th] # cmds[th]) =>
              UNCHANGED <<innerVars, tasks>> ]_vars


(***************************************************************************)
(* Claims about the codec (SpecCodec).                                     *)
(***************************************************************************)
NonZeroAt(b) == { i \in 1..DmxSize : b[i] # 0 }

\* one past the 0-based index of the last non-zero byte; 0 for the zero buffer
LastNonZero(b) ==
    IF NonZeroAt(b) = {} THEN 0
    ELSE CHOOSE i \in NonZeroAt(b) : \A j \in NonZeroAt(b) : j <= i

MaxOf(a, b) == IF a >= b THEN a ELSE b
MinOf(a, b) == IF a <= b THEN a ELSE b

\* the Length field of a datagram (offsets 16-17, big-endian)
LengthField(pkt) == from_be_bytes(At(pkt, 16), At(pkt, 17))

\* C6: for every SenderConfig, sequence byte and 512-byte buffer b with a
\* non-zero byte, parse_artdmx(encode_artdmx(cfg, b, seq)) succeeds with
\* values = b[..length], length even and in 2..512, b zero from index length
\* on, sequence = seq, physical = 0 and net, subnet, universe equal to the
\* config's masked by 0x7F, 0x0F, 0x0F.
C6_RoundTrip ==
    (c_phase = "parsed" /\ c_tampers = 0 /\ NonZeroAt(Dense(c_data)) # {}) =>
        LET f == c_res.frame
            b == Dense(c_data)
        IN  /\ c_res.ok
            /\ f.length % 2 = 0
            /\ f.length \in 2..512
            /\ f.values = SubSeq(b, 1, f.length)
            /\ \A i \in (f.length + 1)..DmxSize : b[i] = 0
            /\ f.sequence = c_seq
            /\ f.physical = 0
            /\ f.net = c_cfg.net % 128
            /\ f.subnet = c_cfg.subnet % 16
            /\ f.universe = c_cfg.universe % 16

\* a round trip of a trimmed frame whose config needs every mask
C6_Witness ==
    /\ c_phase = "parsed" /\ c_tampers = 0 /\ NonZeroAt(Dense(c_data)) # {}
    /\ c_res.ok
    /\ c_cfg.net > 127 /\ c_cfg.subnet > 15 /\ c_cfg.universe > 15
    /\ c_res.frame.length < 512 /\ c_res.frame.length > LastNonZero(Dense(c_data))

\* C7: the Length field encode_artdmx writes is 512 for the zero buffer and
\* otherwise max(last, 2) rounded up to even and capped at 512; it is always
\* even and in 2..512, and the packet is 18 + length bytes long.
C7_EncodedLength ==
    (c_phase = "wire" /\ c_tampers = 0) =>
        LET last   == LastNonZero(Dense(c_data))
            length == LengthField(c_pkt)
        IN  /\ last = 0 => length = 512
            /\ last # 0 => length = MinOf(512, 2 * ((MaxOf(last, 2) + 1) \div 2))
            /\ length % 2 = 0
            /\ length \in 2..512
            /\ Len(c_pkt) = 18 + length

\* an odd `last` above 2: the length is rounded up
C7_Witness ==
    /\ c_phase = "wire" /\ c_tampers = 0
    /\ LastNonZero(Dense(c_data)) = 3
    /\ LengthField(c_pkt) = 4

\* C8: parse_artdmx reports, in this order, a packet shorter than 18 bytes, a
\* wrong ID, an OpCode other than 0x5000, a packet shorter than 18 + Length;
\* otherwise it succeeds whatever ProtVer is, with exactly Length value bytes
\* taken from offset 18, and ignores the bytes after them.
C8_ParseContract ==
    c_phase = "parsed" =>
        LET n     == Len(c_pkt)
            idOk  == \A k \in 0..7 : At(c_pkt, k) = At(ARTNET_ID, k)
            opOk  == At(c_pkt, 8) = 0 /\ At(c_pkt, 9) = 80
            f     == c_res.frame
        IN  IF n < 18 THEN ~c_res.ok /\ c_res.err = "Packet too short"
            ELSE IF ~idOk THEN ~c_res.ok /\ c_res.err = "Not Art-Net"
            ELSE IF ~opOk THEN ~c_res.ok /\ c_res.err = "Unsupported OpCode"
            ELSE IF n < 18 + LengthField(c_pkt)
                 THEN ~c_res.ok /\ c_res.err = "Length mismatch"
            ELSE /\ c_res.ok
                 /\ f.length = LengthField(c_pkt)
                 /\ Len(f.values) = f.length
                 /\ \A i \in 0..(f.length - 1) : At(f.values, i) = At(c_pkt, 18 + i)
                 /\ f.sequence = At(c_pkt, 12)
                 /\ f.physical = At(c_pkt, 13)
                 /\ f.net = At(c_pkt, 15)
                 /\ f.subnet = At(c_pkt, 14) \div 16
                 /\ f.universe = At(c_pkt, 14) % 16

\* a datagram with a foreign ProtVer and trailing bytes is decoded
C8_Witness ==
    /\ c_phase = "parsed" /\ c_res.ok
    /\ At(c_pkt, 11) # 14
    /\ Len(c_pkt) > 18 + c_res.frame.length

(***************************************************************************)
(* Claims about the receiver's dispatch (SpecRecv).                        *)
(***************************************************************************)
Elems(seq) == { seq[i] : i \in DOMAIN seq }
Ks(seq) == { seq[i].k : i \in DOMAIN seq }
Logged(k, ev) == \E i \in DOMAIN log : log[i] = <<k, ev>>

\* C4: for every frame the receiver has finished with, with the filter
\* snapshot it read for that frame: the frame is on the unfiltered sink and,
\* when a streaming-recorder sender was installed, was sent into its queue;
\* when the snapshot was a filter (n,s,u) that differs from the frame's
\* (net,subnet,universe) the frame is not on the filtered sink and was not
\* appended to the buffered recorder; when the snapshot matched or was absent
\* the frame is on the filtered sink too and was appended to the buffered
\* recorder.
C4_FilterSemantics ==
    \A i \in DOMAIN done :
        LET d       == done[i]
            addr    == <<d.frame.net, d.frame.subnet, d.frame.universe>>
            differs == d.filter # None /\ d.filter[1] # addr
            tagged  == [k |-> d.k, frame |-> d.frame]
        IN  /\ tagged \in Elems(dmx)
            /\ (d.tx # None) <=> (Logged(d.k, "enqueue") \/ Logged(d.k, "closed"))
            /\ differs => /\ d.k \notin Ks(dmx_filtered)
                          /\ ~Logged(d.k, "append")
                          /\ ~Logged(d.k, "row")
            /\ ~differs => /\ tagged \in Elems(dmx_filtered)
                           /\ Logged(d.k, "append")

\* with the filter (0,0,5) set, a recorder of each kind running: a frame of
\* universe 4 reached only the unfiltered sink and the streaming queue, a
\* frame of universe 5 reached all four
C4_Witness ==
    \E i, j \in DOMAIN done :
        /\ done[i].filter = Some(<<0, 0, 5>>) /\ done[i].frame.universe = 4
        /\ done[i].tx # None /\ Logged(done[i].k, "enqueue")
        /\ done[i].k \notin Ks(dmx_filtered)
        /\ done[j].filter = Some(<<0, 0, 5>>) /\ done[j].frame.universe = 5
        /\ Logged(done[j].k, "row") /\ Logged(done[j].k, "enqueue")

Rank(ev) ==
    CASE ev = "dmx"          -> 1
      [] ev = "dmx_filtered" -> 2
      [] ev = "append"       -> 3
      [] ev = "row"          -> 4
      [] ev \in {"enqueue", "closed"} -> 5

Increasing(ks) == \A i, j \in DOMAIN ks : i < j => ks[i] < ks[j]

KsOf(seq) == [i \in DOMAIN seq |-> seq[i].k]

\* C5: the receiver's effects happen datagram by datagram in arrival order,
\* and within one datagram in the order unfiltered emit, filtered emit,
\* buffered append, streaming enqueue; so each event sink, the buffered
\* recorder's rows, the streaming queue and the lines written from it hold
\* frames in arrival order.
C5_DispatchOrder ==
    /\ \A i, j \in DOMAIN log :
          i < j => \/ log[i][1] < log[j][1]
                   \/ log[i][1] = log[j][1] /\ Rank(log[i][2]) < Rank(log[j][2])
    /\ Increasing(KsOf(dmx))
    /\ Increasing(KsOf(dmx_filtered))
    /\ Increasing(rows)
    /\ Increasing(KsOf(recorder.lines \o recorder.queue))
    /\ record_buffer # None =>
          /\ Len(rows) = Len(record_buffer[1].timestamps)
          /\ \A i \in DOMAIN rows :
                \E e \in Elems(dmx) :
                    /\ e.k = rows[i]
                    /\ record_buffer[1].addresses[i] =
                          <<e.frame.net, e.frame.subnet, e.frame.universe>>

\* two datagrams have had all four effects each
C5_Witness ==
    /\ Len(done) = 2
    /\ rows = <<1, 2>>
    /\ \A k \in {1, 2} :
          Logged(k, "dmx_filtered") /\ Logged(k, "row") /\ Logged(k, "enqueue")

FrameInRange(f) ==
    /\ f.net \in 0..127
    /\ f.subnet \in 0..15
    /\ f.universe \in 0..15
    /\ f.length \in 2..512
    /\ f.length % 2 = 0

\* C9: every frame on an event sink, in the streaming queue or stored by the
\* buffered recorder has net in 0..127, subnet and universe in 0..15 and an
\* even length in 2..512.
C9_DispatchedFramesInRange ==
    /\ \A e \in Elems(dmx) \cup Elems(dmx_filtered) \cup Elems(recorder.queue) :
          FrameInRange(e.frame)
    /\ record_buffer # None =>
          \A i \in DOMAIN record_buffer[1].addresses :
              record_buffer[1].addresses[i][1] \in 0..127


(***************************************************************************)
(* Claims about the sequence counter (SpecSend).                           *)
(***************************************************************************)
\* C10: every next_sequence call stores and returns the counter's previous
\* value plus 1 modulo 256; so after n calls from a marked value the counter
\* is that value plus n modulo 256, and after 256 calls it is the marked
\* value again, whether the sender task or push_frame made the calls.
C10_SequenceWraps ==
    /\ last_call # None =>
          /\ last_call[1].stored = (last_call[1].prev + 1) % 256
          /\ sequence = last_call[1].stored
    /\ mark # None =>
          /\ sequence = (mark[1] + calls) % 256
          /\ calls = 256 => sequence = mark[1]

\* 256 calls since the counter was marked at 200: the last by the sender
\* task, the one before by a push_frame that has not yet sent its datagram
C10_Witness ==
    /\ mark = Some(200)
    /\ calls = 256
    /\ sequence = 200
    /\ last_call[1].who = "sender"
    /\ \E th \in Workers :
          /\ cmds[th].op = "push_frame" /\ cmds[th].pc = "send"
          /\ cmds[th].seq = 199


(***************************************************************************)
(* SpecLive: the live channel buffer under everything that runs beside it. *)
(* It starts where the host has started the receiver, the sender, the      *)
(* animation, the streaming recorder and a playback.  The tasks and the    *)
(* commands take turns: a loop iteration or a command begins when no other *)
(* is under way.                                                           *)
(***************************************************************************)
\* how often each task iterates and how many commands are issued in a run
LiveRun == 1

\* the arguments set_channel is called with
ChannelIndexes == {0, DmxSize - 1, DmxSize}
ChannelValues  == {0, 7}

\* the value lists set_channels is called with: 512 bytes, none, three, 513
LiveValues ==
    { Dense({<<0, 1>>, <<DmxSize - 1, 2>>}), <<>>, <<1, 2, 3>>,
      Dense({<<1, 4>>}) \o <<9>> }

\* the bytes of a slice as the cells of a [u8; 512]
Sparse(values) ==
    { <<i - 1, values[i]>> : i \in { j \in DOMAIN values : values[j] # 0 } }

\* values.fill(v)
Fill(v) == IF v = 0 THEN ZeroChannels ELSE { <<i, v>> : i \in 0..(DmxSize - 1) }

\* mutant: the value is written to every cell
set_channel_fill(index, value) == channels' = Fill(value)

\* AppState::set_channel: channels[index] = value
set_channel(index, value) ==
    channels' = { c \in channels : c[1] # index }
                   \cup (IF value = 0 THEN {} ELSE {<<index, value>>})

\* AppState::set_channels: channels.copy_from_slice(values)
set_channels(values) == channels' = Sparse(values)

liveQuiet == <<send_cfg, recv_cfg, sequence, animation_state, slots, runVars,
               codecVars, sendVars, now, wire, play, anim, fed,
               record_tx, record_buffer, event_filter, recorder,
               rx, arrived, dmx, dmx_filtered, log, done, rows>>

\* main.rs 266-271
set_channel_cmd ==
    /\ Issue
    /\ \E index \in ChannelIndexes, value \in ChannelValues :
          /\ IF index < 512 THEN set_channel(index, value) ELSE UNCHANGED channels
          /\ reply' = Ok("set_channel", [index |-> index, value |-> value])
    /\ Noted(channels')
    /\ UNCHANGED liveQuiet

\* main.rs 273-278
set_channels_cmd ==
    /\ Issue
    /\ \E values \in LiveValues :
          /\ IF Len(values) = 512 THEN set_channels(values) ELSE UNCHANGED channels
          /\ reply' = Ok("set_channels", [len |-> Len(values)])
    /\ Noted(channels')
    /\ UNCHANGED liveQuiet

\* SystemTime::now() in milliseconds, as the animator reads it: with two
\* periods a second these are the quarters of a period
AnimTimes == {0, 125, 250, 375}

\* (1000.0 / freq) as u64, for a frequency of whole Hz
animation_period_ms(freq) == 1000 \div freq

\* ((sin(2 pi t) + 1) / 2 * 255).round() at the quarters of the period;
\* in f64 sin(pi) is just above 0, and 127.5 rounds to 128
Sinusoid255(phase, period) ==
    CASE 4 * phase = 0          -> 128
      [] 4 * phase = period     -> 255
      [] 4 * phase = 2 * period -> 128
      [] 4 * phase = 3 * period -> 0

\* generate_animation_values: the byte every channel gets, (value *
\* 255.0).round() for the mode's value at t = (time_ms % period_ms) /
\* period_ms; a mode that is no wave gives 0.  The remainder is taken
\* whatever the mode, so the period must not be 0
generate_animation_values(time_ms, mode, freq) ==
    LET period == animation_period_ms(freq)
        phase  == time_ms % period
    IN  CASE mode = "sinusoid" -> Sinusoid255(phase, period)
          [] mode = "ramp"     -> (2 * 255 * phase + period) \div (2 * period)
          [] mode = "square"   -> IF phase > 0 /\ 2 * phase <= period THEN 255 ELSE 0
          [] OTHER             -> 0

\* apply_master_scaling, for one byte
apply_master_scaling(value, master) == (value * master) \div 255

animQuiet == <<recv_cfg, send_cfg, sequence, record_tx, record_buffer,
               animation_state, event_filter, slots, runVars, codecVars,
               recvVars, sendVars, reply, fed, wire, play>>

\* run_animation_task: interval.tick().await and the snapshot of
\* animation_state; the iteration ends there when nothing is to be shown
AnimRead ==
    /\ anim.pc = "tick"
    /\ \E t \in DOMAIN tasks :
          tasks[t].kind = "animation_task" /\ tasks[t].state = "running"
    /\ anim' = [pc |-> IF ~animation_state.is_running \/ animation_state.mode = "off"
                       THEN "tick" ELSE "write",
                animation |-> animation_state]
    /\ UNCHANGED <<animQuiet, channels, held>>

\* the values of the current time, scaled, and
\* app_state.set_channels(&scaled_values); with a period of 0 ms
\* `time_ms % period_ms` panics and the task is gone
AnimWrite ==
    /\ anim.pc = "write"
    /\ IF animation_period_ms(anim.animation.frequency) = 0
       THEN /\ anim' = [anim EXCEPT !.pc = "panicked"]
            /\ UNCHANGED <<channels, held>>
       ELSE /\ \E time_ms \in AnimTimes :
                  channels' = Fill(apply_master_scaling(
                                     generate_animation_values(
                                        time_ms, anim.animation.mode,
                                        anim.animation.frequency),
                                     anim.animation.master_value))
            /\ anim' = AnimIdle
            /\ Noted(channels')
    /\ UNCHANGED animQuiet

\* the loop of run_play_task over the header's channels: arr[*ch - 1] =
\* rec.values[idx], from place idx on
PlayArr(arr, chs, values, idx) ==
    LET I == { i \in idx..Len(chs) :
                 i <= Len(values) /\ chs[i] >= 1 /\ chs[i] <= 512 }
        written == { chs[i] - 1 : i \in I }
    IN  { c \in arr : c[1] \notin written }
          \cup { <<chs[i] - 1, values[i]>> :
                   i \in { k \in I : /\ values[k] # 0
                                      /\ \A j \in I : j > k => chs[j] # chs[k] } }

playQuiet == <<innerVars, runVars, codecVars, recvVars, sendVars,
               reply, fed, wire, anim, held>>

\* run_play_task: the next line of the file is made into arr and sent
PlayFrame ==
    /\ play.task # NoTask /\ play.source = "jsonl"
    /\ tasks[play.task].state = "running"
    /\ play.pos < Len(LongFile.lines)
    /\ play' = [play EXCEPT
                  !.pos = @ + 1,
                  !.arr = PlayArr(ZeroChannels, LongFile.channels,
                                  LongFile.lines[play.pos + 1].values, 1)]
    /\ UNCHANGED playQuiet

\* run_wav_play_task: the next frame of the recording is made into arr and
\* sent
WavPlayFrame ==
    /\ play.task # NoTask /\ play.source = "wav"
    /\ tasks[play.task].state = "running"
    /\ play.pos < Len(WavFile.timestamps)
    /\ play' = [play EXCEPT
                  !.pos = @ + 1,
                  !.arr = { <<ch - 1, WavFile.channels[ch][play.pos + 1]>> :
                              ch \in { c \in DOMAIN WavFile.channels :
                                         /\ play.pos + 1 <= Len(WavFile.channels[c])
                                         /\ WavFile.channels[c][play.pos + 1] # 0 } }]
    /\ UNCHANGED playQuiet

\* the tasks the host has started, by their handles
LiveTasks ==
    <<[kind |-> "recv_task", state |-> "running", cfg |-> ReceiverConfigDefault],
      [kind |-> "send_task", state |-> "running", cfg |-> SenderConfigDefault],
      [kind |-> "animation_task", state |-> "running", cfg |-> None],
      [kind |-> "record_task", state |-> "running", cfg |-> None],
      [kind |-> "play_task", state |-> "running", cfg |-> SenderConfigDefault]>>

LiveSlot(s) == CHOOSE t \in DOMAIN LiveTasks : LiveTasks[t].kind = s

InitLive ==
    /\ recv_cfg = ReceiverConfigDefault
    /\ send_cfg = SenderConfigDefault
    /\ channels = ZeroChannels
    /\ sequence = 0
    /\ record_tx = Some(LiveSlot("record_task"))
    /\ record_buffer = None
    /\ animation_state \in { [mode |-> a.mode, frequency |-> a.frequency,
                               master_value |-> a.master_value, is_running |-> TRUE] :
                                a \in AnimationArgs }
    /\ event_filter = None
    /\ slots = [s \in Slots |-> LiveSlot(s)]
    /\ tasks = LiveTasks
    /\ cmds = [th \in Threads |-> Idle]
    /\ hist = [s \in Slots |-> <<LiveSlot(s)>>]
    /\ CodecIdle /\ SendIdle
    /\ rx = RxIdle /\ arrived = 0 /\ dmx = <<>> /\ dmx_filtered = <<>> /\ now = 0
    /\ issued = 0 /\ log = <<>> /\ done = <<>> /\ rows = <<>>
    /\ recorder = [NoRecorder EXCEPT !.task = LiveSlot("record_task")]
    /\ reply = None /\ fed = NoFed /\ wire = None /\ anim = AnimIdle
    /\ held = NoReaders
    /\ play \in { [NoPlay EXCEPT !.task = LiveSlot("play_task"), !.source = src] :
                     src \in {"jsonl", "wav"} }

\* no loop iteration and no command is under way
Quiet == rx.pc = "recv" /\ snd.pc = "tick" /\ anim.pc = "tick" /\ AllIdle

\* a command may be issued
LiveCmd == Quiet /\ issued < LiveRun

NextLive ==
    \/ LiveCmd /\ set_channel_cmd
    \/ LiveCmd /\ set_channels_cmd
    \/ LiveCmd /\ start_buffered_recording_cmd
    \/ LiveCmd /\ stop_buffered_recording_cmd
    \/ LiveCmd /\ load_recording_cmd
    \/ Quiet /\ AnimRead
    \/ AnimWrite
    \/ Quiet /\ arrived < LiveRun /\ RxRecv
    \/ RxEmit \/ RxFilter \/ RxEmitFiltered \/ RxAppend \/ RxForward
    \/ RecordWrite
    \/ Quiet /\ sequence < LiveRun /\ SndSnapshot
    \/ SndSeq \/ SndSend
    \/ \E th \in Workers :
          /\ cmds[th].op = "idle" => (Quiet /\ sequence < LiveRun)
          /\ push_frame(th)
    \/ Quiet /\ PlayFrame
    \/ Quiet /\ WavPlayFrame

SpecLive == InitLive /\ [][NextLive]_vars

(***************************************************************************)
(* SpecSnap: the readers of the live buffer among its writers.  The        *)
(* sender task and push_frame read it; set_channel, set_channels and the   *)
(* animation task write it.  One reader is under way at a time; every     *)
(* lock it takes is a step, and the writers run between any two of them.   *)
(***************************************************************************)
\* the state of SpecLive, where the sender and the animation run
InitSnap == InitLive /\ play.source = "jsonl"

NextSnap ==
    \/ issued < LiveRun /\ set_channel_cmd
    \/ issued < LiveRun /\ set_channels_cmd
    \/ AnimRead
    \/ AnimWrite
    \/ held = NoReaders /\ sequence < MaxSends /\ SndSnapshot
    \/ SndSeq \/ SndSend
    \/ \E th \in Workers :
          /\ cmds[th].op = "idle" => (held = NoReaders /\ sequence < MaxSends)
          /\ push_frame(th)

SpecSnap == InitSnap /\ [][NextSnap]_vars

(***************************************************************************)
(* SpecAnim: run_animation_task with whatever animation state it may find, *)
(* stop_animation on the main thread, and the host's writes to the live    *)
(* buffer.  abort() ends a task at its next await, which for the animator  *)
(* is interval.tick(): an iteration under way runs to its end.             *)
(***************************************************************************)
\* the animation states a tick may read: start_animation takes any mode,
\* frequency and master value, and a stop_animation that ran while
\* start_animation was under way leaves a task with is_running = false
AnimationStates ==
    [mode : {"off", "sinusoid", "ramp", "square"}, frequency : {2, 2000},
     master_value : {0, 128, 255}, is_running : BOOLEAN]

InitAnim ==
    /\ recv_cfg = ReceiverConfigDefault
    /\ send_cfg = SenderConfigDefault
    /\ channels = ZeroChannels
    /\ sequence = 0
    /\ record_tx = None
    /\ record_buffer = None
    /\ animation_state \in AnimationStates
    /\ event_filter = None
    /\ slots = [s \in Slots |-> IF s = "animation_task" THEN 1 ELSE NoTask]
    /\ tasks = <<[kind |-> "animation_task", state |-> "running", cfg |-> None]>>
    /\ cmds = [th \in Threads |-> Idle]
    /\ hist = [s \in Slots |-> IF s = "animation_task" THEN <<1>> ELSE <<>>]
    /\ CodecIdle /\ RecvIdle /\ SendIdle /\ HostIdle

NextAnim ==
    \/ AnimRead \/ AnimWrite
    \/ Invoke(Main, "stop_animation")
    \/ stop_animation_cmd(Main)
    \/ set_channel_cmd
    \/ set_channels_cmd

SpecAnim == InitAnim /\ [][NextAnim]_vars

(***************************************************************************)
(* SpecPlay: run_record_task writing its file while run_play_task or       *)
(* run_wav_play_task plays a file, which may be that one.  A line of a     *)
(* JSONL file is the JSON value it holds: nothing, a header object (it has *)
(* "format"), or a record object.  The players' steps are their awaits     *)
(* and the reads between them; stop_playback may cancel them at any step.  *)
(***************************************************************************)
EmptyLine == [kind |-> "empty"]
\* {"format": .., "version": 1} with "channels": chs when chs is Some
HeaderLine(chs) == [kind |-> "header", channels |-> chs]
\* struct Line (state.rs 606-613, 653-660)
DataLine(t, n, u, vals) ==
    [kind |-> "data", t_ms |-> t, net |-> n, subnet |-> 0, universe |-> u,
     length |-> Len(vals), values |-> vals]

\* a file with a channel mapping; its timestamps go back once
MappedFile ==
    << HeaderLine(Some(<<3, 1, 600, 0>>)),
       DataLine(10, 1, 3, <<5, 6, 7, 8>>),
       DataLine(4, 0, 5, <<9>>),
       DataLine(9, 0, 5, <<>>) >>

\* a file without a header
BareFile == << DataLine(0, 0, 4, <<1, 2>>), DataLine(20, 0, 4, <<3>>) >>

\* MappedFile after an empty line
BlankFile == <<EmptyLine>> \o MappedFile

\* the file run_record_task has written so far: the header, then a line
\* for each frame (state.rs 600-622)
RecordedFile ==
    <<HeaderLine(None)>>
      \o [i \in DOMAIN recorder.lines |->
            [kind |-> "data", t_ms |-> recorder.lines[i].t_ms,
             net |-> recorder.lines[i].net, subnet |-> recorder.lines[i].subnet,
             universe |-> recorder.lines[i].universe,
             length |-> recorder.lines[i].length,
             values |-> recorder.lines[i].values]]

\* the JSONL files played, by path
JsonlPaths == {"recorded", "mapped", "bare", "blank"}

JsonlAt(path) ==
    CASE path = "recorded" -> RecordedFile
      [] path = "mapped"   -> MappedFile
      [] path = "bare"     -> BareFile
      [] path = "blank"    -> BlankFile

\* a datagram of another sender: Length 4, the payload 5, 0, 0, 0
ForeignDatagram == [SubSeq(Datagram5, 1, 18) EXCEPT ![18] = 4] \o <<5, 0, 0, 0>>

\* the frames the receiver forwards to the recorder: two as this program's
\* sender makes them (one of them all zero), one of another sender
ForwardedFrames ==
    { parse_artdmx(dg).frame :
        dg \in { Datagram5, encode_artdmx(Addressed(1, 2, 3), Zeros, 0),
                 ForeignDatagram } }

\* the queues of the recorder at the start of a run
RecordedRuns ==
    { <<[k |-> 1, frame |-> f]>> : f \in ForwardedFrames }
      \cup { <<[k |-> 1, frame |-> f], [k |-> 2, frame |-> g]>> :
               f \in ForwardedFrames, g \in ForwardedFrames }

\* let mut channels: Vec<usize> = (1..=512).collect()
DefaultChannels == [i \in 1..DmxSize |-> i]

\* the streaming recorder and the playback task, by their handles
PlayTasks ==
    <<[kind |-> "record_task", state |-> "running", cfg |-> None],
      [kind |-> "play_task", state |-> "running",
       cfg |-> [SenderConfigDefault EXCEPT !.net = 7, !.universe = 9]]>>

InitPlay ==
    /\ recv_cfg = ReceiverConfigDefault
    /\ send_cfg = PlayTasks[2].cfg
    /\ channels = ZeroChannels
    /\ sequence = 0
    /\ record_tx = Some(1)
    /\ record_buffer = None
    /\ animation_state = AnimationStateDefault
    /\ event_filter = None
    /\ slots = [s \in Slots |-> IF s = "record_task" THEN 1
                                 ELSE IF s = "play_task" THEN 2 ELSE NoTask]
    /\ tasks = PlayTasks
    /\ cmds = [th \in Threads |-> Idle]
    /\ hist = [s \in Slots |-> IF s = "record_task" THEN <<1>>
                                ELSE IF s = "play_task" THEN <<2>> ELSE <<>>]
    /\ CodecIdle /\ SendIdle
    /\ rx = RxIdle /\ arrived = 0 /\ dmx = <<>> /\ dmx_filtered = <<>> /\ now = 0
    /\ issued = 0 /\ log = <<>> /\ done = <<>> /\ rows = <<>>
    /\ reply = None /\ fed = NoFed /\ wire = None /\ anim = AnimIdle
    /\ held = NoReaders
    /\ \E path \in JsonlPaths \cup {"wav"} :
          /\ play = [NoPlay EXCEPT !.task = 2, !.source = path,
                                   !.channels = DefaultChannels]
          /\ recorder \in { [NoRecorder EXCEPT !.task = 1, !.queue = q] :
                                q \in IF path = "recorded" THEN RecordedRuns
                                      ELSE {<<>>} }

\* the playback task has not ended and has not been cancelled
Playing == play.task # NoTask /\ tasks[play.task].state = "running"

playerQuiet == <<innerVars, cmds, hist, codecVars, recvVars, sendVars,
                 reply, fed, wire, anim, held>>

\* the task's future returns
PlayReturns(pc) ==
    /\ play' = [play EXCEPT !.pc = pc, !.first = FALSE]
    /\ tasks' = [tasks EXCEPT ![play.task].state = "finished"]

\* rec.t_ms.saturating_sub(prev), 0 for the first record
Delta(t_ms) == IF play.last_t = None THEN 0 ELSE saturating_sub(t_ms, play.last_t[1])

\* run_play_task from lines.next() to the sleep or the send: the end of the
\* file ends the task; the first line is consumed when it is a header;
\* any other line must deserialize as a Line, or the error ends the task
PlayNext ==
    /\ Playing /\ play.source \in JsonlPaths /\ play.pc = "next"
    /\ LET file == JsonlAt(play.source)
           line == file[play.pos + 1]
       IN  IF play.pos >= Len(file) THEN PlayReturns("done")
           ELSE IF play.first /\ line.kind = "header"
           THEN /\ play' = [play EXCEPT
                              !.pos = @ + 1, !.first = FALSE,
                              !.channels = IF line.channels # None
                                           THEN line.channels[1] ELSE @]
                /\ UNCHANGED tasks
           ELSE IF line.kind # "data"
           THEN PlayReturns("failed")
           ELSE /\ play' = [play EXCEPT
                              !.pos = @ + 1, !.first = FALSE, !.rec = Some(line),
                              !.wait = 0,
                              !.pc = IF Delta(line.t_ms) > 0 THEN "sleep" ELSE "send"]
                /\ UNCHANGED tasks
    /\ UNCHANGED playerQuiet

\* sleep(Duration::from_millis(delta)).await, of either player
PlaySleep ==
    /\ Playing /\ play.pc = "sleep"
    /\ play' = [play EXCEPT !.wait = Delta(play.rec[1].t_ms), !.pc = "send"]
    /\ UNCHANGED <<playerQuiet, tasks>>

\* the record's addressing in a clone of the task's config, the frame made
\* of the record's values, and send_artdmx(&sock, &send_cfg, &arr, 0)
PlaySend ==
    /\ Playing /\ play.source \in JsonlPaths /\ play.pc = "send"
    /\ LET rec == play.rec[1]
           cfg == [tasks[play.task].cfg EXCEPT !.net = rec.net,
                                               !.subnet = rec.subnet,
                                               !.universe = rec.universe]
           arr == PlayArr(ZeroChannels, play.channels, rec.values, 1)
       IN  play' = [play EXCEPT
                      !.last_t = Some(rec.t_ms), !.arr = arr, !.rec = None,
                      !.pc = "next",
                      !.out = Append(@, [t_ms |-> rec.t_ms, wait |-> play.wait,
                                         pkt |-> encode_artdmx(cfg, Dense(arr), 0)])]
    /\ UNCHANGED <<playerQuiet, tasks>>

\* run_wav_play_task from the head of its for loop to the sleep or the send
WavNext ==
    /\ Playing /\ play.source = "wav" /\ play.pc = "next"
    /\ IF play.pos >= Len(WavFile.timestamps) THEN PlayReturns("done")
       ELSE LET t_ms == WavFile.timestamps[play.pos + 1]
            IN  /\ play' = [play EXCEPT
                              !.pos = @ + 1, !.first = FALSE,
                              !.rec = Some([t_ms |-> t_ms, frame_idx |-> play.pos]),
                              !.wait = 0,
                              !.pc = IF Delta(t_ms) > 0 THEN "sleep" ELSE "send"]
                /\ UNCHANGED tasks
    /\ UNCHANGED playerQuiet

\* the frame made of the recording's columns and sent with the task's config
WavSend ==
    /\ Playing /\ play.source = "wav" /\ play.pc = "send"
    /\ LET rec == play.rec[1]
           arr == { <<ch - 1, WavFile.channels[ch][rec.frame_idx + 1]>> :
                      ch \in { c \in DOMAIN WavFile.channels :
                                 /\ c <= DmxSize
                                 /\ rec.frame_idx < Len(WavFile.channels[c])
                                 /\ WavFile.channels[c][rec.frame_idx + 1] # 0 } }
       IN  play' = [play EXCEPT
                      !.last_t = Some(rec.t_ms), !.arr = arr, !.rec = None,
                      !.pc = "next",
                      !.out = Append(@, [t_ms |-> rec.t_ms, wait |-> play.wait,
                                         pkt |-> encode_artdmx(tasks[play.task].cfg,
                                                               Dense(arr), 0)])]
    /\ UNCHANGED <<playerQuiet, tasks>>

NextPlay ==
    \/ RecordWrite \/ Tick
    \/ PlayNext \/ PlaySleep \/ PlaySend
    \/ WavNext \/ WavSend
    \/ Invoke(Main, "stop_playback")
    \/ stop_playback_cmd(Main)

SpecPlay == InitPlay /\ [][NextPlay]_vars

(***************************************************************************)
(* The buffered recorder (SpecRecord).                                     *)
(***************************************************************************)
\* the byte append takes from a frame for channel index ch
ChannelValue(frame, ch) == IF ch < Len(frame.values) THEN At(frame.values, ch) ELSE 0

HasRecord == record_buffer # None
Record == record_buffer[1]

\* C11: a record made empty by start_buffered_recording that has since stored
\* MAX_RECORD_FRAMES + k frames (k >= 0) holds MAX_RECORD_FRAMES frames, and
\* its timestamps, addresses and columns are those of the stored frames
\* k+1 .. MAX_RECORD_FRAMES+k, in order.
C11_RingCap ==
    (fed.frames # None /\ Len(fed.frames[1]) >= MAX_RECORD_FRAMES) =>
        LET k == Len(fed.frames[1]) - MAX_RECORD_FRAMES
            kept(i) == fed.frames[1][k + i]
        IN  /\ HasRecord
            /\ Len(Record.timestamps) = MAX_RECORD_FRAMES
            /\ Len(Record.addresses) = MAX_RECORD_FRAMES
            /\ \A i \in 1..MAX_RECORD_FRAMES :
                  /\ Record.timestamps[i] = kept(i).t_ms
                  /\ Record.addresses[i] = <<kept(i).frame.net, kept(i).frame.subnet,
                                             kept(i).frame.universe>>
            /\ \A c \in DOMAIN Record.values :
                  /\ Len(Record.values[c]) = MAX_RECORD_FRAMES
                  /\ \A i \in 1..MAX_RECORD_FRAMES :
                        Record.values[c][i] = ChannelValue(kept(i).frame, Record.channels[c])

\* an active record that has evicted its first frame, which differed from
\* the second in time, address and bytes
C11_Witness ==
    /\ fed.frames # None
    /\ Len(fed.frames[1]) = MAX_RECORD_FRAMES + 1
    /\ HasRecord /\ Record.active
    /\ Len(Record.channels) = 2
    /\ fed.frames[1][1].t_ms # fed.frames[1][2].t_ms
    /\ fed.frames[1][1].frame.universe # fed.frames[1][2].frame.universe
    /\ ChannelValue(fed.frames[1][1].frame, 0) # ChannelValue(fed.frames[1][2].frame, 0)

\* C12: in every reachable state the buffered record holds at most
\* MAX_RECORD_FRAMES frames, whatever commands and frames produced it.
C12_AtMostMaxFrames ==
    HasRecord => Len(Record.timestamps) <= MAX_RECORD_FRAMES

\* C13: a record that start_buffered_recording, stop_buffered_recording,
\* set_record_channels and appended frames produced has one column per
\* selected channel, and every column and the address list are as long as
\* timestamps.
C13_ColumnsAligned ==
    (HasRecord /\ ~fed.loaded) =>
        /\ Len(Record.values) = Len(Record.channels)
        /\ Len(Record.addresses) = Len(Record.timestamps)
        /\ \A c \in DOMAIN Record.values :
              Len(Record.values[c]) = Len(Record.timestamps)

\* frames were stored, the channels were changed to <<0, 2>>, and one more
\* frame evicted the first
C13_Witness ==
    /\ HasRecord /\ ~fed.loaded
    /\ reply # None /\ reply[1].op = "set_record_channels"
    /\ Record.channels = <<0, 2>>
    /\ arrived = RecordRun
    /\ Len(Record.timestamps) = MAX_RECORD_FRAMES
    /\ rows # <<>> /\ rows[1] = 2

\* a step of get_recording_preview
PreviewStep ==
    /\ issued' # issued
    /\ reply' # None /\ reply'[1].op = "get_recording_preview"

\* the number of samples 0, s, 2s, ... below L
SampleCount(L, s) == ((L - 1) \div s) + 1

\* C14: get_recording_preview of a selected channel whose column has L rows,
\* with max_points = M.  L = 0 or M = 0: no points, with the frame count and
\* the duration.  L <= M: the L points (timestamps[i], column[i]) in order.
\* L > M: the samples at 0, s, 2s, ... for s = ceil(L / M), then at most the
\* final sample, at most M + 1 points, the last one at the last timestamp.
C14_PreviewStride ==
    [][(PreviewStep /\ reply'[1].ok /\ HasRecord
          /\ Position(Record.channels, reply'[1].value.channel - 1) # 0)
       => LET M    == reply'[1].value.max_points
              resp == reply'[1].value.response
              col  == Record.values[Position(Record.channels,
                                             reply'[1].value.channel - 1)]
              L    == Len(col)
              ts   == Record.timestamps
              s    == CHOOSE n \in 1..L : n * M >= L /\ (n - 1) * M < L
              pts  == resp.points
          IN  /\ (L = 0 \/ M = 0) =>
                    /\ pts = <<>>
                    /\ resp.frame_count = Len(ts)
                    /\ resp.duration_ms = duration_ms(Record)
              /\ (L >= 1 /\ M >= 1 /\ L <= M) =>
                    /\ Len(pts) = L
                    /\ \A i \in 1..L : pts[i] = [t_ms |-> ts[i], value |-> col[i]]
              /\ (M >= 1 /\ L > M) =>
                    /\ Len(pts) \in {SampleCount(L, s), SampleCount(L, s) + 1}
                    /\ Len(pts) <= M + 1
                    /\ \A j \in 1..SampleCount(L, s) :
                          pts[j] = [t_ms  |-> ts[(j - 1) * s + 1],
                                    value |-> col[(j - 1) * s + 1]]
                    /\ pts[Len(pts)].t_ms = ts[Len(ts)]
                    /\ (L \div M) <= s /\ s <= ceil_div(L, M)
      ]_vars

\* a preview of more rows than max_points = 1: the first row and the final
\* sample, M + 1 points
C14_Witness ==
    /\ reply # None /\ reply[1].op = "get_recording_preview" /\ reply[1].ok
    /\ reply[1].value.max_points = 1
    /\ reply[1].value.response.frame_count > 1
    /\ Len(reply[1].value.response.points) = 2
    /\ reply[1].value.response.points[2].t_ms = reply[1].value.response.duration_ms

\* a channel number the recorder can select
InChannelRange(c) == c >= 1 /\ c <= DmxSize

\* seq without the later occurrences of its elements
RECURSIVE FirstOccurrences(_)
FirstOccurrences(seq) ==
    IF seq = <<>> THEN <<>>
    ELSE LET init == FirstOccurrences(SubSeq(seq, 1, Len(seq) - 1))
             last == seq[Len(seq)]
         IN  IF Contains(init, last) THEN init ELSE Append(init, last)

\* C15: start_buffered_recording(channels) returns the requested channels
\* without duplicates and without the entries outside 1..512, first
\* occurrences in their order, and the record it installs has those channels,
\* no frames and active = TRUE.
C15_StartNormalizes ==
    [][(issued' # issued /\ reply' # None
          /\ reply'[1].op = "start_buffered_recording")
       => LET wanted == FirstOccurrences(SelectSeq(reply'[1].value.channels,
                                                   InChannelRange))
          IN  /\ reply'[1].ok
              /\ reply'[1].value.returned = wanted
              /\ record_buffer' # None
              /\ ToNumbers(record_buffer'[1].channels) = wanted
              /\ record_buffer'[1].timestamps = <<>>
              /\ record_buffer'[1].addresses = <<>>
              /\ \A c \in DOMAIN record_buffer'[1].values :
                    record_buffer'[1].values[c] = <<>>
              /\ record_buffer'[1].active
      ]_vars

\* C16: stop_buffered_recording sets active to FALSE and changes nothing else
\* of the record; a frame handed to the recorder while the record is inactive
\* or absent leaves the recorder as it was.
C16_StopRetains ==
    [][/\ (issued' # issued /\ reply' # None
             /\ reply'[1].op = "stop_buffered_recording")
          => record_buffer' = IF HasRecord
                              THEN Some([Record EXCEPT !.active = FALSE])
                              ELSE None
       /\ (arrived' # arrived /\ ~Storing)
          => record_buffer' = record_buffer
      ]_vars

\* the record stored the first frame, was stopped, and was then handed a
\* second frame
C16_Witness ==
    /\ HasRecord /\ ~Record.active
    /\ reply # None /\ reply[1].op = "stop_buffered_recording"
    /\ arrived = 2
    /\ rows = <<1>>
    /\ Len(Record.timestamps) = 1
    /\ Len(Record.channels) = 2 /\ Len(Record.values[1]) = 1

SenderTasks == { t \in DOMAIN tasks : tasks[t].kind = "send_task" }

\* the packet fields a config gives
FieldsOf(cfg) ==
    <<cfg.target_ip, cfg.port, cfg.net, cfg.subnet, cfg.universe,
      IF cfg.fps <= 1 THEN 1000 ELSE (2000 + cfg.fps) \div (2 * cfg.fps)>>

\* C20: a sender task's packets have the target, port, net, subnet, universe
\* and tick period of the config start_sender read when it made the task:
\* the task gets the config its start_sender read, set_sender_config changes
\* neither a task's config nor a packet, and every packet sent has the
\* fields of its task's config.
C20_ConfigCapturedAtStart ==
    [][/\ \A th \in Workers :
             (cmds[th].op = "start_sender" /\ cmds[th].pc = "cfg"
                /\ cmds'[th].pc = "spawn")
             => cmds'[th].cfg = send_cfg
       /\ \A t \in DOMAIN tasks' :
             IF t \in DOMAIN tasks
             THEN tasks'[t].cfg = tasks[t].cfg
             ELSE tasks'[t].kind = "send_task" =>
                    \E th \in Workers :
                       /\ cmds[th].op = "start_sender" /\ cmds[th].pc = "spawn"
                       /\ cmds'[th].handle = t
                       /\ tasks'[t].cfg = cmds[th].cfg
       /\ send_cfg' # send_cfg => wire' = wire
       /\ (wire' # None /\ wire' # wire) =>
             /\ wire'[1].task \in SenderTasks
             /\ <<wire'[1].target_ip, wire'[1].port, wire'[1].net, wire'[1].subnet,
                  wire'[1].universe, wire'[1].period>>
                  = FieldsOf(tasks[wire'[1].task].cfg)
      ]_vars

\* a packet of a task started with the default config, sent after
\* set_sender_config had changed every field of the shared config
C20_Witness ==
    /\ wire # None
    /\ tasks[wire[1].task].cfg = SenderConfigDefault
    /\ wire[1].universe = 0
    /\ wire[1].shared.universe = 3
    /\ wire[1].shared.target_ip # wire[1].target_ip
    /\ wire[1].shared.port # wire[1].port
    /\ period_ms(wire[1].shared) # wire[1].period


(***************************************************************************)
(* The live buffer (SpecLive).                                             *)
(***************************************************************************)
\* C18: set_channels with a list that has not 512 values reports an error to
\* the host and leaves the live buffer as it was.
C18_SetChannelsRejects ==
    [][(issued' # issued /\ reply' # None /\ reply'[1].op = "set_channels"
          /\ reply'[1].value.len # DmxSize)
       => (~reply'[1].ok /\ channels' = channels)
      ]_vars

\* the cells of the buffer other than the one at index
Others(buf, index) == { c \in buf : c[1] # index }

\* a step of the command op
CmdStep(op) == issued' # issued /\ reply' # None /\ reply'[1].op = op

\* C19: the live buffer changes only in a set_channel step with index < 512,
\* where only that cell changes, in a set_channels step with 512 values, and
\* in the animation task's write; set_channel with index >= 512 and every
\* step of the receiver, the sender, push_frame, the recorders,
\* load_recording and the playback tasks leave it as it was.
C19_LiveBufferWriters ==
    [][/\ channels' # channels =>
             \/ /\ CmdStep("set_channel")
                /\ reply'[1].value.index < DmxSize
                /\ Others(channels', reply'[1].value.index)
                     = Others(channels, reply'[1].value.index)
             \/ /\ CmdStep("set_channels")
                /\ reply'[1].value.len = DmxSize
             \/ /\ anim.pc = "write" /\ anim'.pc = "tick"
       /\ (CmdStep("set_channel") /\ reply'[1].value.index >= DmxSize)
             => channels' = channels
       /\ (\/ rx' # rx \/ snd' # snd \/ cmds' # cmds \/ wire' # wire
           \/ recorder' # recorder \/ record_buffer' # record_buffer
           \/ play' # play \/ dmx' # dmx \/ sequence' # sequence)
             => channels' = channels
      ]_vars

\* the animation filled the buffer with 64, set_channel then wrote 7 to cell
\* 0 alone; the receiver, the sender and the playback have run
C19_Witness ==
    /\ reply # None /\ reply[1].op = "set_channel"
    /\ reply[1].value = [index |-> 0, value |-> 7]
    /\ <<0, 7>> \in channels
    /\ Others(channels, 0) = Others(Fill(64), 0)
    /\ arrived = 1 /\ dmx # <<>>
    /\ sequence = 1 /\ wire # None
    /\ play.pos > 0

(***************************************************************************)
(* Loading, saving and appending (SpecRecord).                             *)
(***************************************************************************)
\* a step of the command `op`
Command(op) == issued' # issued /\ reply' # None /\ reply'[1].op = op

\* the RecordData load_recording reads at a path
LoadedData(path) ==
    IF path.wav THEN record_data_from_wav(path.file) ELSE parse_jsonl_file(path.file)

\* C22: load_recording installs the data it read as the record, with
\* active = FALSE; while that record is there it stays inactive, and a frame
\* handed to the recorder leaves the record as it was.
C22_LoadInstallsInactive ==
    [][/\ Command("load_recording") =>
             /\ reply'[1].ok
             /\ record_buffer' # None
             /\ ~record_buffer'[1].active
             /\ \E path \in LoadPaths :
                   /\ record_buffer'[1].channels = LoadedData(path).channels
                   /\ record_buffer'[1].timestamps = LoadedData(path).timestamps
                   /\ record_buffer'[1].addresses = LoadedData(path).addresses
                   /\ record_buffer'[1].values = LoadedData(path).values
                   /\ reply'[1].value.frames = Len(LoadedData(path).timestamps)
       /\ fed'.loaded => (record_buffer' # None /\ ~record_buffer'[1].active)
       /\ (fed.loaded /\ arrived' # arrived) => record_buffer' = record_buffer
      ]_vars

\* the WAV recording was loaded, every frame of the run was handed to the
\* recorder, at least one of them after the load, and the record is the
\* file's
C22_Witness ==
    /\ fed.loaded /\ fed.offered
    /\ arrived = RecordRun
    /\ reply # None /\ reply[1].op = "load_recording" /\ reply[1].value.format = "wav"
    /\ HasRecord /\ ~Record.active
    /\ Record.timestamps = WavFile.timestamps
    /\ Record.values = WavFile.channels

\* C23: save_buffered_recording_jsonl and save_buffered_recording_wav
\* return an error when there is no record, save_buffered_recording_wav also
\* when the record has no frames; a save that returns an error changes
\* nothing of the shared state, the tasks or the recorders.
C23_SaveErrors ==
    [][/\ (Command("save_buffered_recording_jsonl") /\ ~HasRecord) => ~reply'[1].ok
       /\ (Command("save_buffered_recording_wav")
             /\ (~HasRecord \/ Record.timestamps = <<>>)) => ~reply'[1].ok
       /\ ((Command("save_buffered_recording_jsonl")
               \/ Command("save_buffered_recording_wav")) /\ ~reply'[1].ok) =>
             UNCHANGED <<innerVars, runVars, recorder, fed, rows>>
      ]_vars

\* save_buffered_recording_wav has refused a record that exists and has no
\* frames
C23_Witness ==
    /\ reply = Err("save_buffered_recording_wav", "No recorded frames")
    /\ HasRecord /\ Record.timestamps = <<>> /\ Record.channels # <<>>

Distinct(seq) == \A i, j \in DOMAIN seq : seq[i] = seq[j] => i = j

\* C24: the record load_recording has installed has distinct channel
\* indices below 512, one column per channel, and every column and the
\* address list as long as timestamps.
C24_LoadedRecordWellFormed ==
    (fed.loaded /\ reply # None /\ reply[1].op = "load_recording") =>
        /\ HasRecord
        /\ Distinct(Record.channels)
        /\ \A i \in DOMAIN Record.channels : Record.channels[i] < DmxSize
        /\ Len(Record.values) = Len(Record.channels)
        /\ Len(Record.addresses) = Len(Record.timestamps)
        /\ \A c \in DOMAIN Record.values :
              Len(Record.values[c]) = Len(Record.timestamps)

\* C25: a preview of a selected channel whose column has more rows than
\* max_points (max_points >= 1) ends with the final sample: the last row's
\* timestamp and the last byte of the column.
C25_PreviewEndsAtFinalSample ==
    [][(PreviewStep /\ reply'[1].ok /\ HasRecord
          /\ Position(Record.channels, reply'[1].value.channel - 1) # 0
          /\ Position(Record.channels, reply'[1].value.channel - 1) <= Len(Record.values))
       => LET M   == reply'[1].value.max_points
              col == Record.values[Position(Record.channels,
                                            reply'[1].value.channel - 1)]
              L   == Len(col)
              pts == reply'[1].value.response.points
          IN  (M >= 1 /\ L > M /\ Len(Record.timestamps) = L) =>
                 /\ pts # <<>>
                 /\ pts[Len(pts)] = [t_ms |-> Record.timestamps[L], value |-> col[L]]
      ]_vars

\* what a Vec holds after push(x) and enforce_limit
Pushed(old, x) ==
    IF Len(old) + 1 > MAX_RECORD_FRAMES THEN Tail(Append(old, x)) ELSE Append(old, x)

NonDecreasing(seq) == \A i, j \in DOMAIN seq : i <= j => seq[i] <= seq[j]

\* C26: a frame handed to an active record adds one entry to timestamps
\* (the time since the record's start), one address and one byte to every
\* column: the frame's byte at the channel's index, 0 when the frame is
\* shorter; the timestamps of a record that was started and fed never
\* decrease.
C26_AppendAddsOneRow ==
    [][(arrived' # arrived /\ Storing) =>
          /\ record_buffer' # None
          /\ \E frame \in RecordFrames :
                /\ (fed'.frames # None) =>
                       fed'.frames[1][Len(fed'.frames[1])].frame = frame
                /\ record_buffer'[1].timestamps =
                      Pushed(Record.timestamps, now - Record.start)
                /\ record_buffer'[1].addresses =
                      Pushed(Record.addresses,
                             <<frame.net, frame.subnet, frame.universe>>)
                /\ DOMAIN record_buffer'[1].values = DOMAIN Record.values
                /\ \A c \in DOMAIN Record.values :
                      record_buffer'[1].values[c] =
                        Pushed(Record.values[c], ChannelValue(frame, Record.channels[c]))
          /\ (~fed.loaded) => NonDecreasing(record_buffer'[1].timestamps)
      ]_vars

\* two frames stored a millisecond apart by a record of the channels 1 and
\* 3; the second frame has two bytes, so its row has 0 for channel 3
C26_Witness ==
    /\ Storing /\ fed.frames # None /\ Len(fed.frames[1]) = 2
    /\ Record.channels = <<0, 2>>
    /\ Record.timestamps = <<0, 1>>
    /\ Len(fed.frames[1][2].frame.values) = 2
    /\ Record.values[1][2] # 0
    /\ Record.values[2][2] = 0

(***************************************************************************)
(* The snapshots of the live buffer (SpecSnap).                            *)
(***************************************************************************)
\* the Length encode_artdmx gives the buffer whose non-zero cells are `cells`
TrimmedLength(cells) ==
    LET last == IF cells = {} THEN 0
                ELSE 1 + (CHOOSE i \in { c[1] : c \in cells } :
                            \A j \in { c[1] : c \in cells } : j <= i)
        len0 == IF last = 0 THEN 512 ELSE MaxOf(last, 2)
    IN  MinOf(512, len0 + (len0 % 2))

\* the payload encode_artdmx makes of `data` is a prefix of the buffer value
\* h: h has the cells of data, and its other cells lie beyond the Length
PayloadOf(data, h) ==
    \/ h = data
    \/ /\ data \subseteq h
       /\ LET len == TrimmedLength(data)
          IN  \A c \in h \ data : c[1] >= len

\* C27: the payload of the packet a sender tick or a push_frame is about
\* to send is a prefix of one value the live buffer has had since the tick
\* or the command began, whatever the writers did meanwhile.
C27_PayloadIsOneSnapshot ==
    /\ snd.pc = "send" => \E h \in held.sender : PayloadOf(snd.last, h)
    /\ \A th \in Workers :
          (cmds[th].op = "push_frame" /\ cmds[th].pc = "send") =>
             \E h \in held.push[th] : PayloadOf(cmds[th].arg, h)

\* the sender is about to send a snapshot with bytes in both halves, made
\* by set_channels, while the animation has given the buffer two other
\* values since the tick
C27_Witness ==
    /\ snd.pc = "send"
    /\ \E a, b \in snd.last : a[1] < DmxSize \div 2 /\ b[1] >= DmxSize \div 2
    /\ Cardinality(snd.last) = 2
    /\ Cardinality(held.sender) >= 3
    /\ channels # snd.last

(***************************************************************************)
(* The players (SpecPlay).                                                 *)
(***************************************************************************)
\* the playback task has returned of itself: it was not cancelled
Ended == play.pc \in {"done", "failed"}

\* the frame of the i-th packet the player has sent, as a receiver decodes it
Decoded(i) == parse_artdmx(play.out[i].pkt).frame

\* the data records of a file, in the file's order
DataRecords(file) == SelectSeq(file, LAMBDA l : l.kind = "data")

\* a file from its first non-empty line on
RECURSIVE StripBlank(_)
StripBlank(file) ==
    IF file = <<>> \/ Head(file).kind # "empty" THEN file
    ELSE StripBlank(Tail(file))

\* the column mapping of a file: the channels of the header that is its
\* first non-empty line, 1..512 without one
MappingOf(file) ==
    LET b == StripBlank(file)
    IN  IF b # <<>> /\ b[1].kind = "header" /\ b[1].channels # None
        THEN b[1].channels[1] ELSE DefaultChannels

\* cell c (from 0) of the 512-byte frame a payload is the prefix of
Cell(payload, c) == IF c < Len(payload) THEN payload[c + 1] ELSE 0

\* C21: what the player sends of the file of the streaming recorder
\* decodes, packet by packet and in the order of the file, to the net,
\* subnet, universe and values of the recorded frames, one packet a frame,
\* also for frames that end in zero bytes or are all zero.
C21_RecordedRoundTrip ==
    play.source = "recorded" =>
       /\ Len(play.out) <= Len(recorder.lines)
       /\ \A i \in DOMAIN play.out :
             /\ Decoded(i).net = recorder.lines[i].net
             /\ Decoded(i).subnet = recorder.lines[i].subnet
             /\ Decoded(i).universe = recorder.lines[i].universe
             /\ Decoded(i).values = recorder.lines[i].values
       /\ (play.pc = "done" /\ play.pos = Len(RecordedFile)) =>
             Len(play.out) = Len(recorder.lines)

\* C28: the player sends one packet for every data record of a JSONL
\* file, with sequence byte 0, the record's net, subnet and universe, and
\* the frame that has values[i] in cell channels[i]-1 and 0 elsewhere; the
\* live sequence counter stays as it was.
C28_PacketOfEachRecord ==
    play.source \in JsonlPaths =>
       LET file == JsonlAt(play.source)
           recs == DataRecords(file)
           chs  == MappingOf(file)
       IN  /\ sequence = 0
           /\ Len(play.out) <= Len(recs)
           /\ (Ended /\ play.source # "recorded") => Len(play.out) = Len(recs)
           /\ \A i \in DOMAIN play.out :
                 LET I == { k \in DOMAIN chs :
                              k <= Len(recs[i].values) /\ chs[k] >= 1 /\ chs[k] <= 512 }
                 IN  /\ Decoded(i).sequence = 0
                     /\ Decoded(i).net = recs[i].net
                     /\ Decoded(i).subnet = recs[i].subnet
                     /\ Decoded(i).universe = recs[i].universe
                     /\ \A k \in I :
                           Cell(Decoded(i).values, chs[k] - 1) = recs[i].values[k]
                     /\ \A c \in 0..(DmxSize - 1) :
                           c \notin { chs[k] - 1 : k \in I } =>
                              Cell(Decoded(i).values, c) = 0

\* the timestamps of the frames of the source being played
SourceTimes ==
    IF play.source = "wav" THEN WavFile.timestamps
    ELSE LET recs == DataRecords(JsonlAt(play.source))
         IN  [i \in DOMAIN recs |-> recs[i].t_ms]

\* C29: either player sends the frames of its source in the order of the
\* source, the first without a wait and each other one after a wait of
\* max(0, t_ms - previous t_ms); a task that ends without being cancelled
\* has sent the last frame.
C29_OrderWaitsAndEnd ==
    play.task # NoTask =>
       /\ Len(play.out) <= Len(SourceTimes)
       /\ \A i \in DOMAIN play.out :
             /\ play.out[i].t_ms = SourceTimes[i]
             /\ play.out[i].wait =
                   IF i = 1 THEN 0
                   ELSE MaxOf(0, SourceTimes[i] - SourceTimes[i - 1])
       /\ (Ended /\ play.source # "recorded") =>
             Len(play.out) = Len(SourceTimes)

\* the packets of a file whose first line is its header or a record: none
\* for the header, and for each record the one of its values under the
\* file's mapping
PacketsOf(file) ==
    LET recs == IF file # <<>> /\ file[1].kind = "header" THEN Tail(file) ELSE file
    IN  [i \in DOMAIN recs |->
           encode_artdmx([tasks[play.task].cfg EXCEPT !.net = recs[i].net,
                                                      !.subnet = recs[i].subnet,
                                                      !.universe = recs[i].universe],
                         Dense(PlayArr(ZeroChannels, MappingOf(file),
                                       recs[i].values, 1)),
                         0)]

\* C30: the JSONL player takes the first non-empty line of the file for
\* the header or the first record: when it has come to the end of a file,
\* it has sent what it sends of the file without its leading empty lines,
\* nothing for a header, and the first line as a record of the channels
\* 1..512 when it has no format key.
C30_FirstNonEmptyLine ==
    (play.source \in JsonlPaths \ {"recorded"} /\ Ended) =>
       [i \in DOMAIN play.out |-> play.out[i].pkt]
          = PacketsOf(StripBlank(JsonlAt(play.source)))

(***************************************************************************)
(* The channel numbers the recorder's commands return (SpecRecord).        *)
(***************************************************************************)
\* C37: every channel number start_buffered_recording or
\* set_record_channels returns is in 1..512 and is one of the numbers the
\* caller passed; a request with the number 0 does not select channel 1.
C37_ReturnedWereRequested ==
    [][(Command("start_buffered_recording") \/ Command("set_record_channels"))
       => \A i \in DOMAIN reply'[1].value.returned :
             /\ InChannelRange(reply'[1].value.returned[i])
             /\ Contains(reply'[1].value.channels, reply'[1].value.returned[i])
      ]_vars

(***************************************************************************)
(* Datagrams that do not decode (SpecRecv).                                *)
(***************************************************************************)
\* nothing the receiver produces carries the arrival number k
Traceless(k) ==
    /\ \A i \in DOMAIN dmx : dmx[i].k # k
    /\ \A i \in DOMAIN dmx_filtered : dmx_filtered[i].k # k
    /\ \A i \in DOMAIN rows : rows[i] # k
    /\ \A i \in DOMAIN recorder.queue : recorder.queue[i].k # k
    /\ \A i \in DOMAIN recorder.lines : recorder.lines[i].k # k
    /\ \A i \in DOMAIN log : log[i][1] # k
    /\ \A i \in DOMAIN done : done[i].k # k

\* C35: a datagram that is too short, has a wrong ID, an OpCode other than
\* ArtDmx or a Length beyond its end causes no event on either sink, no row
\* of the buffered recorder and no entry of the streaming queue, then or
\* later; its arrival changes no shared state and leaves the receiver
\* running at the head of its loop, ready for the next datagram.
C35_MalformedDropped ==
    [][/\ \A k \in rx'.malformed : Traceless(k)'
       /\ (arrived' # arrived /\ (arrived + 1) \in rx'.malformed)
          => /\ UNCHANGED <<innerVars, tasks, dmx, dmx_filtered, rows,
                            recorder, log, done>>
             /\ rx'.pc = "recv"
             /\ tasks[Receiver].state = "running"
      ]_vars

\* the first datagram was malformed; the second had all its effects
C35_Witness ==
    /\ rx.malformed = {1}
    /\ Len(done) = 1 /\ done[1].k = 2
    /\ KsOf(dmx) = <<2>> /\ KsOf(dmx_filtered) = <<2>>
    /\ rows = <<2>>
    /\ Logged(2, "enqueue")

(***************************************************************************)
(* The animator (SpecAnim).                                                *)
(***************************************************************************)
\* C33: a tick of the animator that finds is_running false or the mode off
\* ends without a write to the live buffer; a tick that finds is_running
\* true, a mode sinusoid, ramp or square and a frequency above 0 (also
\* above 1000 Hz) goes on to the write and completes it, and the buffer
\* then has one value in all 512 channels, at most the master value.
C33_AnimatorTick ==
    [][(anim' # anim) =>
         /\ (anim.pc = "tick" /\ (~animation_state.is_running
                                    \/ animation_state.mode = "off"))
            => (anim'.pc = "tick" /\ channels' = channels)
         /\ (anim.pc = "tick" /\ animation_state.is_running
               /\ animation_state.mode \in {"sinusoid", "ramp", "square"}
               /\ animation_state.frequency > 0)
            => anim'.pc = "write"
         /\ anim.pc = "write"
            => /\ anim'.pc = "tick"
               /\ \E v \in 0..anim.animation.master_value : channels' = Fill(v)
      ]_vars

\* stop_animation has returned
StopAnimationReturned == slots.animation_task = NoTask /\ cmds[Main].op = "idle"

\* C34: once stop_animation has returned the animator writes nothing to the
\* live buffer, so what the host stores there afterwards stays.
C34_NoWriteAfterStop ==
    [][(StopAnimationReturned /\ anim' # anim) => channels' = channels]_vars

(***************************************************************************)
(* SpecStream: the streaming recorder over several sessions.  A session is *)
(* the queue start_recording creates and the task it spawns; the steps of  *)
(* run_record_task are File::create, the header line, rx.recv() and the    *)
(* write of one line.  abort() cancels a task at its next await, that is   *)
(* at rx.recv() returning Pending: a poll under way on a worker runs on to *)
(* there.  A file is the sequence of its lines, each named by the arrival  *)
(* number of the frame it holds.                                            *)
(***************************************************************************)
MaxSessions == 2

HeaderEntry == [kind |-> "header", k |-> 0, t_ms |-> 0]
LineEntry(k, t) == [kind |-> "data", k |-> k, t_ms |-> t]
\* the bytes a write past the end of a file leaves unwritten
HoleEntry == [kind |-> "hole", k |-> 0, t_ms |-> 0]

\* write_all at the position of the handle
WriteAt(file, offset, e) ==
    IF offset < Len(file)
    THEN [file EXCEPT ![offset + 1] = e]
    ELSE file \o [i \in 1..(offset - Len(file)) |-> HoleEntry] \o <<e>>

\* what a session is: the fields of the recorder but its history
SessionOf(r) ==
    [task |-> r.task, start |-> r.start, queue |-> r.queue, lines |-> r.lines,
     pc |-> r.pc, hand |-> r.hand, offset |-> r.offset, path |-> r.path]

\* one step of run_record_task inside a poll, at time t, on the file at its path
run_record_task(s, file, t) ==
    CASE s.pc = "create" ->
           [s |-> [s EXCEPT !.pc = "header", !.offset = 0], file |-> <<>>]
      [] s.pc = "header" ->
           [s |-> [s EXCEPT !.pc = "recv", !.offset = @ + 1, !.start = t],
            file |-> WriteAt(file, s.offset, HeaderEntry)]
      [] s.pc = "recv" ->
           IF s.queue = <<>>
           THEN [s |-> [s EXCEPT !.pc = "idle"], file |-> file]
           ELSE [s |-> [s EXCEPT !.pc = "write", !.hand = <<Head(s.queue)>>,
                                 !.queue = Tail(@)],
                 file |-> file]
      [] s.pc = "write" ->
           LET q == s.hand[1]
               t_ms == t - s.start
           IN  [s |-> [s EXCEPT !.pc = "recv", !.hand = <<>>, !.offset = @ + 1,
                         !.lines = Append(@, [k |-> q.k, t_ms |-> t_ms,
                                              net |-> q.frame.net,
                                              subnet |-> q.frame.subnet,
                                              universe |-> q.frame.universe,
                                              length |-> q.frame.length,
                                              values |-> q.frame.values])],
                file |-> WriteAt(file, s.offset, LineEntry(q.k, t_ms))]

Polling(s) == s.pc \in {"create", "header", "recv", "write"}

\* tokio::spawn(run_record_task(path, rx)) with a new channel
StreamSpawn(th) ==
    /\ tasks' = Append(tasks, [kind |-> "record_task", state |-> "running",
                               cfg |-> None])
    /\ cmds' = [cmds EXCEPT ![th].handle = Len(tasks) + 1, ![th].pc = "set"]
    /\ recorder' = [NoRecorder EXCEPT
                      !.task = Len(tasks) + 1,
                      !.path = cmds[th].arg,
                      !.disk = recorder.disk,
                      !.old = IF recorder.task = NoTask THEN recorder.old
                              ELSE <<SessionOf(recorder)>>]

\* the host invokes start_recording(path)
InvokeRecording ==
    /\ cmds[Main].op = "idle"
    /\ Cardinality({ t \in DOMAIN tasks : tasks[t].kind = "record_task" }) < MaxSessions
    /\ \E path \in RecordPaths :
          cmds' = [cmds EXCEPT ![Main] = [Idle EXCEPT !.op = "start_recording",
                                                      !.pc = "stop", !.arg = path]]
    /\ UNCHANGED <<innerVars, tasks, hist, offVars>>

\* a worker polls the task: the first time, or when a frame wakes it
StreamWake ==
    /\ recorder.task # NoTask
    /\ tasks[recorder.task].state = "running"
    /\ \/ recorder.pc = "spawned" /\ recorder' = [recorder EXCEPT !.pc = "create"]
       \/ /\ recorder.pc = "idle"
          /\ recorder.queue # <<>>
          /\ recorder' = [recorder EXCEPT !.pc = "recv"]
    /\ UNCHANGED <<innerVars, runVars, codecVars, sendVars, recvRest, hostVars>>

\* a step of the installed session's task
StreamPoll ==
    /\ recorder.task # NoTask
    /\ Polling(recorder)
    /\ LET r == run_record_task(SessionOf(recorder), recorder.disk[recorder.path], now)
       IN  recorder' = [recorder EXCEPT
                          !.start = r.s.start, !.queue = r.s.queue,
                          !.lines = r.s.lines, !.pc = r.s.pc, !.hand = r.s.hand,
                          !.offset = r.s.offset,
                          !.disk = [@ EXCEPT ![recorder.path] = r.file]]
    /\ UNCHANGED <<innerVars, runVars, codecVars, sendVars, recvRest, hostVars>>

\* a step of the replaced session's task, whose poll was under way when it
\* was aborted
OldPoll ==
    /\ recorder.old # <<>>
    /\ Polling(recorder.old[1])
    /\ LET o == recorder.old[1]
           r == run_record_task(o, recorder.disk[o.path], now)
       IN  recorder' = [recorder EXCEPT
                          !.old = <<r.s>>,
                          !.disk = [@ EXCEPT ![o.path] = r.file]]
    /\ UNCHANGED <<innerVars, runVars, codecVars, sendVars, recvRest, hostVars>>

\* the datagrams of one sender, the same frame each time
StreamRecv == RxRecv /\ rx'.pc = "emit" /\ rx'.frame = parse_artdmx(Datagram5).frame

NextStream ==
    \/ StreamRecv \/ RxEmit \/ RxFilter \/ RxEmitFiltered \/ RxAppend \/ RxForward
    \/ Tick
    \/ InvokeRecording
    \/ start_recording_by(Main, StreamSpawn(Main))
    \/ record_tx # None /\ Invoke(Main, "stop_recording")
    \/ stop_recording_cmd(Main)
    \/ StreamWake \/ StreamPoll \/ OldPoll

SpecStream == InitRecv /\ [][NextStream]_vars

(***************************************************************************)
(* The streaming recorder's file (SpecStream).                             *)
(***************************************************************************)
\* the installed session has written its header
Streaming == recorder.task # NoTask /\ recorder.pc \in {"recv", "write", "idle"}

StreamFile == recorder.disk[recorder.path]

\* the arrivals pushed to the installed session's queue, in the order pushed
SessionPushes ==
    LET I == { i \in DOMAIN done : done[i].tx = <<recorder.task>> }
        nth[n \in 0..Len(done)] ==
            IF n = 0 THEN <<>>
            ELSE IF n \in I THEN Append(nth[n - 1], done[n].k) ELSE nth[n - 1]
    IN  nth[Len(done)]

\* C31: the file of a streaming session is the header line followed by one
\* line per frame for a prefix of the frames pushed to the session's queue,
\* in queue order, each once and with non-decreasing t_ms; no frame decoded
\* after stop_recording is in the file of a later session.
C31_SessionFile ==
    Streaming =>
        LET f == StreamFile
            n == Len(f) - 1
        IN  /\ n >= 0
            /\ f[1] = HeaderEntry
            /\ n <= Len(SessionPushes)
            /\ \A i \in 1..n :
                  /\ f[i + 1].kind = "data"
                  /\ f[i + 1].k = SessionPushes[i]
                  /\ f[i + 1].k \notin rx.late
                  /\ i > 1 => f[i].t_ms <= f[i + 1].t_ms

(***************************************************************************)
(* The files the save commands write and what load_recording reads from    *)
(* them.  A JSONL file is the "channels" array of its header and its       *)
(* lines; a WAV file is its bytes.                                         *)
(***************************************************************************)
U16 == 65536

\* RecordData::channel_numbers: (c + 1) as u16
channel_numbers(data) == [i \in DOMAIN data.channels |-> (data.channels[i] + 1) % U16]

\* timestamps.first().copied().unwrap_or(0)
BaseOf(data) == IF data.timestamps = <<>> THEN 0 ELSE data.timestamps[1]

\* channel.get(idx).copied().unwrap_or(0), idx counted from 1
ColumnAt(column, idx) == IF idx <= Len(column) THEN column[idx] ELSE 0

\* write_buffer_as_jsonl: the header with the 1-based channel numbers, then a
\* line per frame with its timestamp less the first and one value per column
write_buffer_as_jsonl(data) ==
    [channels |-> channel_numbers(data),
     lines |-> [idx \in 1..frame_count(data) |->
                  [t_ms |-> saturating_sub(data.timestamps[idx], BaseOf(data)),
                   net |-> IF idx <= Len(data.addresses) THEN data.addresses[idx][1] ELSE 0,
                   subnet |-> IF idx <= Len(data.addresses) THEN data.addresses[idx][2] ELSE 0,
                   universe |-> IF idx <= Len(data.addresses) THEN data.addresses[idx][3] ELSE 0,
                   values |-> [c \in DOMAIN data.values |-> ColumnAt(data.values[c], idx)]]]]

\* u32::to_le_bytes, u32::from_le_bytes at a position of a buffer.  The u32
\* values of a file of MAX_RECORD_FRAMES frames stay far below 2^31, so no
\* product below wraps
u32_to_le_bytes(x) == [i \in 1..4 |-> (x \div (U8 ^ (i - 1))) % U8]
u32_from_le_bytes(buf, pos) ==
    At(buf, pos) + U8 * At(buf, pos + 1) + U8 * U8 * At(buf, pos + 2)
      + U8 * U8 * U8 * At(buf, pos + 3)

\* b"RIFF", b"WAVE", b"fmt ", b"data"
RIFF == <<82, 73, 70, 70>>
WAVE == <<87, 65, 86, 69>>
FMT_ == <<102, 109, 116, 32>>
DATA == <<100, 97, 116, 97>>

\* write_buffer_as_wav: the rate and the WavRecordingData handed on
wav_sample_rate(data) ==
    LET duration == IF duration_ms(data) < 1 THEN 1 ELSE duration_ms(data)
        rate     == (frame_count(data) * 1000) \div duration
    IN  IF rate < 1 THEN 1 ELSE rate

wav_recording_data(data) ==
    [timestamps |-> [i \in DOMAIN data.timestamps |->
                       saturating_sub(data.timestamps[i], BaseOf(data))],
     channels |-> data.values]

\* save_wav_recording: the 44 bytes of the header, then the samples frame by
\* frame, a byte per channel
save_wav_recording(sample_rate, data) ==
    LET num_channels == Len(data.channels) % U16
        block_align  == num_channels
        byte_rate    == sample_rate * block_align
        frames       == Len(data.timestamps)
        data_size    == frames * block_align
        file_size    == 36 + data_size
        sample(n)    == LET frame_idx == (n - 1) \div num_channels
                            ch        == (n - 1) % num_channels
                        IN  ColumnAt(data.channels[ch + 1], frame_idx + 1)
    IN  RIFF \o u32_to_le_bytes(file_size) \o WAVE
          \o FMT_ \o u32_to_le_bytes(16) \o to_le_bytes(1) \o to_le_bytes(num_channels)
          \o u32_to_le_bytes(sample_rate) \o u32_to_le_bytes(byte_rate)
          \o to_le_bytes(block_align) \o to_le_bytes(8)
          \o DATA \o u32_to_le_bytes(data_size)
          \o [n \in 1..(frames * num_channels) |-> sample(n)]

\* the file write_buffer_as_wav writes for a record that has frames
wav_of_buffer(data) == save_wav_recording(wav_sample_rate(data), wav_recording_data(data))

\* load_wav_recording, "Find fmt chunk": the position after the chunk, the
\* rate and the channel count it declares; an index past the buffer panics
RECURSIVE find_fmt_chunk(_, _)
find_fmt_chunk(buffer, pos) ==
    IF ~(pos < Len(buffer) - 8)
    THEN [err |-> None, pos |-> pos, sample_rate |-> 44100, num_channels |-> 0]
    ELSE LET chunk_id   == Slice(buffer, pos, pos + 4)
             chunk_size == u32_from_le_bytes(buffer, pos + 4)
             at         == pos + 8
         IN  IF chunk_id # FMT_ THEN find_fmt_chunk(buffer, at + chunk_size)
             ELSE IF chunk_size < 16
             THEN [err |-> Some("Invalid fmt chunk size"), pos |-> at,
                   sample_rate |-> 44100, num_channels |-> 0]
             ELSE IF at + 16 > Len(buffer)
             THEN [err |-> Some("panic"), pos |-> at,
                   sample_rate |-> 44100, num_channels |-> 0]
             ELSE IF from_le_bytes(At(buffer, at + 14), At(buffer, at + 15)) # 8
             THEN [err |-> Some("Expected 8 bits per sample"), pos |-> at,
                   sample_rate |-> 44100, num_channels |-> 0]
             ELSE [err |-> None, pos |-> at + chunk_size,
                   sample_rate |-> u32_from_le_bytes(buffer, at + 4),
                   num_channels |-> from_le_bytes(At(buffer, at + 2), At(buffer, at + 3))]

\* load_wav_recording, "Find data chunk"
RECURSIVE find_data_chunk(_, _, _)
find_data_chunk(buffer, pos, fmt) ==
    IF ~(pos < Len(buffer) - 8)
    THEN Err("load_wav_recording", "No data chunk found in WAV file")
    ELSE LET chunk_id   == Slice(buffer, pos, pos + 4)
             chunk_size == u32_from_le_bytes(buffer, pos + 4)
             at         == pos + 8
         IN  IF chunk_id # DATA THEN find_data_chunk(buffer, at + chunk_size, fmt)
             ELSE IF fmt.num_channels = 0 THEN Err("load_wav_recording", "panic")
             ELSE LET num_frames == chunk_size \div fmt.num_channels
                      read(ch, frame_idx) ==
                          LET p == at + frame_idx * fmt.num_channels + ch
                          IN  IF p < Len(buffer) THEN At(buffer, p) ELSE 0
                  IN  Ok("load_wav_recording",
                         [timestamps |-> [i \in 1..num_frames |->
                                            ((i - 1) * 1000) \div fmt.sample_rate],
                          channels |-> [c \in 1..fmt.num_channels |->
                                          [i \in 1..num_frames |-> read(c - 1, i - 1)]]])

\* load_wav_recording on the bytes of a file
load_wav_recording(buffer) ==
    IF Len(buffer) < 44
    THEN Err("load_wav_recording", "File too small to be a valid WAV file")
    ELSE IF Slice(buffer, 0, 4) # RIFF THEN Err("load_wav_recording", "Invalid RIFF header")
    ELSE IF Slice(buffer, 8, 12) # WAVE THEN Err("load_wav_recording", "Invalid WAVE header")
    ELSE LET fmt == find_fmt_chunk(buffer, 12)
         IN  IF fmt.err # None THEN Err("load_wav_recording", fmt.err[1])
             ELSE find_data_chunk(buffer, fmt.pos, fmt)

(***************************************************************************)
(* Saving the buffered record and loading the file (SpecRecord).           *)
(***************************************************************************)
Saved(op) == Command(op) /\ reply'[1].ok

\* C36: save_buffered_recording_jsonl of any buffered record followed by
\* load_recording of the file installs a record with the same channel list,
\* addresses and column bytes, and the timestamps less the first one.
C36_JsonlRoundTrip ==
    [][Saved("save_buffered_recording_jsonl") =>
          LET data   == Record
              loaded == parse_jsonl_file(write_buffer_as_jsonl(data))
          IN  /\ loaded.channels = data.channels
              /\ loaded.addresses = data.addresses
              /\ loaded.values = data.values
              /\ loaded.timestamps =
                    [i \in DOMAIN data.timestamps |->
                       data.timestamps[i] - BaseOf(data)]]_vars

\* C32: save_buffered_recording_wav of a buffered record with at least one
\* frame, whatever its number of columns, followed by load_recording of the
\* file succeeds with as many columns and frames, the same byte at every
\* position, and t_ms[i] = i*1000/sample_rate for
\* sample_rate = max(1, frame_count*1000/duration_ms), a duration of 0 ms
\* counting as 1.
C32_WavRoundTrip ==
    [][Saved("save_buffered_recording_wav") =>
          LET data   == Record
              frames == frame_count(data)
              dur    == IF duration_ms(data) = 0 THEN 1 ELSE duration_ms(data)
              rate   == IF (frames * 1000) \div dur < 1 THEN 1 ELSE (frames * 1000) \div dur
              read   == load_wav_recording(wav_of_buffer(data))
          IN  /\ read[1].ok
              /\ LET loaded == record_data_from_wav(read[1].value)
                 IN  /\ Len(loaded.values) = Len(data.values)
                     /\ frame_count(loaded) = frames
                     /\ loaded.values = data.values
                     /\ loaded.timestamps =
                           [i \in 1..frames |-> ((i - 1) * 1000) \div rate]]_vars

====
